---- MODULE Spec2Model ----
(***************************************************************************)
(* Model of fow_chess.board.Board (src/fow_chess/board.py): the board      *)
(* state, pseudo-legal move generation, move application, the sight set    *)
(* and the fog-of-war encoders.                                            *)
(*                                                                         *)
(* A Position is a record [rank, file]; a Piece is a record                *)
(* [type, color, position]; the piece map is a function from the occupied  *)
(* Positions to Pieces (Python: Dict[Position, Piece]).  A Move is a       *)
(* record [piece, to_position, capture_target, promotion_piece,            *)
(* castling_rook]; the pieces in a Move are the values the Piece objects   *)
(* had when the move was generated, and apply_move re-reads the mutated    *)
(* object where the Python code does.  The FEN snapshot that Move carries  *)
(* as provenance is never read by board.py and is left out.                *)
(* Strings are sequences of one-character strings.                         *)
(***************************************************************************)
EXTENDS Integers, Sequences, FiniteSets, TLC

VARIABLES
    pieces,           \* Board.pieces: Position -> Piece
    castling,         \* Board.castling: color -> <<kingside, queenside>>
    side_to_move,     \* Board.side_to_move
    en_passant,       \* Board.en_passant: a Position or None
    halfmove_clock,   \* Board.halfmove_clock
    fullmove_number,  \* Board.fullmove_number
    fen,              \* Board.fen, the cached to_fen()
    fow_fen,          \* Board.fow_fen, the cached to_fow_fen(side_to_move)
    lastMove,         \* the Move given to the last apply_move, None before the first
    result,           \* what the last apply_move returned
    prev,             \* the board as it was when lastMove was generated
    ply,              \* number of apply_move calls so far
    quiet_run,        \* number of moves applied since halfmove_clock was 0, all of
                      \* them neither pawn moves nor captures; -1 when there is no such run
    first,            \* the board as it was constructed
    black_moves,      \* number of moves of BLACK pieces applied so far
    call              \* the last operation called on the board: its name, its
                      \* color argument, what it returned, and whether the call
                      \* before it was the same operation with the same argument

vars == <<pieces, castling, side_to_move, en_passant, halfmove_clock,
          fullmove_number, fen, fow_fen, lastMove, result, prev, ply, quiet_run,
          first, black_moves, call>>

(* ---- bounds of the model ---- *)
MaxPly == 2
MaxFogPly == 1
MaxShufflePly == 50
MaxQueryPly == 1
MaxCodecPly == 2
MaxHiddenPly == 1

(* ---- enumerations ---- *)
None == [none |-> TRUE]   \* Python None where a Position, Piece or Move is optional
NoType == "None"          \* Python None as Move.promotion_piece
NoOutcome == "None"       \* Python None as the return value of apply_move

WHITE == "WHITE"
BLACK == "BLACK"
DRAW == "DRAW"
Colors == {WHITE, BLACK}

PAWN == "p"
KNIGHT == "n"
BISHOP == "b"
ROOK == "r"
QUEEN == "q"
KING == "k"
PieceTypes == {PAWN, KNIGHT, BISHOP, ROOK, QUEEN, KING}

DrawClock == 50

ColorValue(c) == IF c = WHITE THEN 0 ELSE 1

TypeOrdinal(t) ==
    CASE t = PAWN -> 0 [] t = KNIGHT -> 1 [] t = BISHOP -> 2
      [] t = ROOK -> 3 [] t = QUEEN -> 4 [] t = KING -> 5

Abs(x) == IF x < 0 THEN -x ELSE x

(* ---- Position, Piece, Move ---- *)
Pos(r, f) == [rank |-> r, file |-> f]

IsValid(pos) == pos.rank \in 1..8 /\ pos.file \in 1..8

Squares == {Pos(r, f) : r \in 1..8, f \in 1..8}

FileLetter(f) ==
    CASE f = 1 -> "a" [] f = 2 -> "b" [] f = 3 -> "c" [] f = 4 -> "d"
      [] f = 5 -> "e" [] f = 6 -> "f" [] f = 7 -> "g" [] f = 8 -> "h"

Digit(d) ==
    CASE d = 0 -> "0" [] d = 1 -> "1" [] d = 2 -> "2" [] d = 3 -> "3"
      [] d = 4 -> "4" [] d = 5 -> "5" [] d = 6 -> "6" [] d = 7 -> "7"
      [] d = 8 -> "8" [] d = 9 -> "9"

RECURSIVE Str(_)
Str(n) == IF n < 10 THEN <<Digit(n)>> ELSE Str(n \div 10) \o <<Digit(n % 10)>>

ToSan(pos) == <<FileLetter(pos.file), Digit(pos.rank)>>

Piece(t, c, pos) == [type |-> t, color |-> c, position |-> pos]

PieceRank(p) == p.position.rank

PieceFile(p) == p.position.file

Move(p, to, cap, promo, rook) ==
    [piece |-> p, to_position |-> to, capture_target |-> cap,
     promotion_piece |-> promo, castling_rook |-> rook]

(* ---- the board as a value ---- *)
BoardOf(ps, cs, stm, ep, hmc, fmn) ==
    [pieces |-> ps, castling |-> cs, side_to_move |-> stm,
     en_passant |-> ep, halfmove_clock |-> hmc, fullmove_number |-> fmn]

Self == BoardOf(pieces, castling, side_to_move, en_passant, halfmove_clock,
                fullmove_number)

Get(ps, pos) == IF pos \in DOMAIN ps THEN ps[pos] ELSE None

Del(ps, pos) == [q \in (DOMAIN ps) \ {pos} |-> ps[q]]

Put(ps, pos, p) == [q \in (DOMAIN ps) \cup {pos} |-> IF q = pos THEN p ELSE ps[q]]

(* ---- move generation ---- *)
PromotionTypes == <<QUEEN, ROOK, BISHOP, KNIGHT>>

(* the promotion loop that only offers the queen *)
PromotionMovesQueenOnly(piece, target, cap) ==
    <<Move(piece, target, cap, QUEEN, None)>>

PromotionMoves(piece, target, cap) ==
    [i \in 1..4 |-> Move(piece, target, cap, PromotionTypes[i], None)]

(* add_move_if_not_blocked reporting "not blocked" after a capture *)
add_move_capture_not_blocking(b, moves, piece, target, can_capture, can_promote, must_capture) ==
    IF ~IsValid(target)
    THEN [moves |-> moves, blocked |-> TRUE]
    ELSE LET target_piece == Get(b.pieces, target) IN
         IF target_piece = None
         THEN [moves |-> IF must_capture THEN moves
                         ELSE IF can_promote
                              THEN moves \o PromotionMoves(piece, target, None)
                              ELSE Append(moves, Move(piece, target, None, NoType, None)),
               blocked |-> FALSE]
         ELSE IF target_piece.color # piece.color /\ can_capture
              THEN [moves |-> IF can_promote
                              THEN moves \o PromotionMoves(piece, target, target_piece)
                              ELSE Append(moves, Move(piece, target, target_piece, NoType, None)),
                    blocked |-> FALSE]
              ELSE [moves |-> moves, blocked |-> TRUE]

add_move_if_not_blocked(b, moves, piece, target, can_capture, can_promote, must_capture) ==
    IF ~IsValid(target)
    THEN [moves |-> moves, blocked |-> TRUE]
    ELSE LET target_piece == Get(b.pieces, target) IN
         IF target_piece = None
         THEN [moves |-> IF must_capture THEN moves
                         ELSE IF can_promote
                              THEN moves \o PromotionMoves(piece, target, None)
                              ELSE Append(moves, Move(piece, target, None, NoType, None)),
               blocked |-> FALSE]
         ELSE [moves |-> IF target_piece.color # piece.color /\ can_capture
                         THEN IF can_promote
                              THEN moves \o PromotionMoves(piece, target, target_piece)
                              ELSE Append(moves, Move(piece, target, target_piece, NoType, None))
                         ELSE moves,
               blocked |-> TRUE]

(* EnPassantMoves without the test of the capturing pawn's rank *)
EnPassantMovesAnyRank(b, piece, own_rank, target_rank) ==
    IF b.en_passant # None
       /\ Abs(PieceFile(piece) - b.en_passant.file) = 1
       /\ b.en_passant.rank = target_rank
    THEN <<Move(piece, b.en_passant,
                b.pieces[Pos(own_rank, b.en_passant.file)], NoType, None)>>
    ELSE <<>>

EnPassantMoves(b, piece, own_rank, target_rank) ==
    IF b.en_passant # None
       /\ Abs(PieceFile(piece) - b.en_passant.file) = 1
       /\ PieceRank(piece) = own_rank
       /\ b.en_passant.rank = target_rank
    THEN <<Move(piece, b.en_passant,
                b.pieces[Pos(own_rank, b.en_passant.file)], NoType, None)>>
    ELSE <<>>

(* get_white_pawn_moves whose diagonal steps need no piece to capture *)
get_white_pawn_moves_diagonal_quiet(b, piece) ==
    LET r == PieceRank(piece)
        f == PieceFile(piece)
        s1 == add_move_if_not_blocked(b, <<>>, piece, Pos(3, f), FALSE, FALSE, FALSE)
        march == IF r = 2
                 THEN IF ~s1.blocked
                      THEN add_move_if_not_blocked(b, s1.moves, piece, Pos(4, f),
                                                   FALSE, FALSE, FALSE).moves
                      ELSE s1.moves
                 ELSE IF r <= 7
                      THEN add_move_if_not_blocked(b, <<>>, piece, Pos(r + 1, f),
                                                   FALSE, r = 7, FALSE).moves
                      ELSE <<>>
        c1 == add_move_if_not_blocked(b, march, piece, Pos(r + 1, f + 1),
                                      TRUE, r = 7, FALSE).moves
        c2 == add_move_if_not_blocked(b, c1, piece, Pos(r + 1, f - 1),
                                      TRUE, r = 7, FALSE).moves
    IN c2 \o EnPassantMoves(b, piece, 5, 6)

get_white_pawn_moves(b, piece) ==
    LET r == PieceRank(piece)
        f == PieceFile(piece)
        s1 == add_move_if_not_blocked(b, <<>>, piece, Pos(3, f), FALSE, FALSE, FALSE)
        march == IF r = 2
                 THEN IF ~s1.blocked
                      THEN add_move_if_not_blocked(b, s1.moves, piece, Pos(4, f),
                                                   FALSE, FALSE, FALSE).moves
                      ELSE s1.moves
                 ELSE IF r <= 7
                      THEN add_move_if_not_blocked(b, <<>>, piece, Pos(r + 1, f),
                                                   FALSE, r = 7, FALSE).moves
                      ELSE <<>>
        c1 == add_move_if_not_blocked(b, march, piece, Pos(r + 1, f + 1),
                                      TRUE, r = 7, TRUE).moves
        c2 == add_move_if_not_blocked(b, c1, piece, Pos(r + 1, f - 1),
                                      TRUE, r = 7, TRUE).moves
    IN c2 \o EnPassantMoves(b, piece, 5, 6)

get_black_pawn_moves(b, piece) ==
    LET r == PieceRank(piece)
        f == PieceFile(piece)
        s1 == add_move_if_not_blocked(b, <<>>, piece, Pos(6, f), FALSE, FALSE, FALSE)
        march == IF r = 7
                 THEN IF ~s1.blocked
                      THEN add_move_if_not_blocked(b, s1.moves, piece, Pos(5, f),
                                                   FALSE, FALSE, FALSE).moves
                      ELSE s1.moves
                 ELSE IF r >= 2
                      THEN add_move_if_not_blocked(b, <<>>, piece, Pos(r - 1, f),
                                                   FALSE, r = 2, FALSE).moves
                      ELSE <<>>
        c1 == add_move_if_not_blocked(b, march, piece, Pos(r - 1, f + 1),
                                      TRUE, r = 2, TRUE).moves
        c2 == add_move_if_not_blocked(b, c1, piece, Pos(r - 1, f - 1),
                                      TRUE, r = 2, TRUE).moves
    IN c2 \o EnPassantMoves(b, piece, 4, 3)

get_pawn_moves(b, piece) ==
    IF piece.color = BLACK THEN get_black_pawn_moves(b, piece)
    ELSE get_white_pawn_moves(b, piece)

KnightDx == <<1, 2, 2, 1, -1, -2, -2, -1>>
KnightDy == <<2, 1, -1, -2, -2, -1, 1, 2>>
KingDx == <<1, 1, 1, 0, 0, -1, -1, -1>>
KingDy == <<1, 0, -1, 1, -1, 1, 0, -1>>

(* the loop "for i in range(8)" of get_knight_moves / get_king_moves *)
RECURSIVE OffsetMoves(_, _, _, _, _, _)
OffsetMoves(b, moves, piece, dx, dy, i) ==
    IF i > 8 THEN moves
    ELSE OffsetMoves(b,
             add_move_if_not_blocked(b, moves, piece,
                 Pos(PieceRank(piece) + dx[i], PieceFile(piece) + dy[i]),
                 TRUE, FALSE, FALSE).moves,
             piece, dx, dy, i + 1)

get_knight_moves(b, piece) == OffsetMoves(b, <<>>, piece, KnightDx, KnightDy, 1)

(* Ray that gives up after six steps *)
RECURSIVE RayUpToSix(_, _, _, _, _, _)
RayUpToSix(b, moves, piece, dr, df, i) ==
    IF i > 6 THEN moves
    ELSE LET s == add_move_if_not_blocked(b, moves, piece,
                      Pos(PieceRank(piece) + i * dr, PieceFile(piece) + i * df),
                      TRUE, FALSE, FALSE)
         IN IF s.blocked THEN s.moves ELSE RayUpToSix(b, s.moves, piece, dr, df, i + 1)

(* one loop "for i in range(1, 8): ... if add_move_if_not_blocked: break" *)
RECURSIVE Ray(_, _, _, _, _, _)
Ray(b, moves, piece, dr, df, i) ==
    IF i > 7 THEN moves
    ELSE LET s == add_move_if_not_blocked(b, moves, piece,
                      Pos(PieceRank(piece) + i * dr, PieceFile(piece) + i * df),
                      TRUE, FALSE, FALSE)
         IN IF s.blocked THEN s.moves ELSE Ray(b, s.moves, piece, dr, df, i + 1)

get_bishop_moves(b, piece) ==
    Ray(b, Ray(b, Ray(b, Ray(b, <<>>, piece, 1, 1, 1), piece, 1, -1, 1),
               piece, -1, 1, 1), piece, -1, -1, 1)

get_rook_moves(b, piece) ==
    Ray(b, Ray(b, Ray(b, Ray(b, <<>>, piece, 1, 0, 1), piece, -1, 0, 1),
               piece, 0, 1, 1), piece, 0, -1, 1)

get_queen_moves(b, piece) == get_rook_moves(b, piece) \o get_bishop_moves(b, piece)

(* PathClear that skips the square next to the lower end *)
PathClearFromSecond(b, rank, lo, hi) ==
    \A f \in (lo + 1)..(hi - 1) : Get(b.pieces, Pos(rank, f)) = None

(* "for file in range(lo, hi): if occupied: break  else: <emit>" *)
PathClear(b, rank, lo, hi) ==
    \A f \in lo..(hi - 1) : Get(b.pieces, Pos(rank, f)) = None

get_king_moves(b, piece) ==
    LET r == PieceRank(piece)
        f == PieceFile(piece)
        steps == OffsetMoves(b, <<>>, piece, KingDx, KingDy, 1)
        right_rook == Get(b.pieces, Pos(r, 8))
        ks == IF b.castling[piece.color][1] /\ right_rook # None
                 /\ PathClear(b, r, f + 1, PieceFile(right_rook))
              THEN <<Move(piece, Pos(r, f + 2), None, NoType, right_rook)>>
              ELSE <<>>
        left_rook == Get(b.pieces, Pos(r, 1))
        qs == IF b.castling[piece.color][2] /\ left_rook # None
                 /\ PathClear(b, r, PieceFile(left_rook) + 1, f)
              THEN <<Move(piece, Pos(r, f - 2), None, NoType, left_rook)>>
              ELSE <<>>
    IN steps \o ks \o qs

PieceMoves(b, piece) ==
    CASE piece.type = PAWN -> get_pawn_moves(b, piece)
      [] piece.type = KNIGHT -> get_knight_moves(b, piece)
      [] piece.type = BISHOP -> get_bishop_moves(b, piece)
      [] piece.type = ROOK -> get_rook_moves(b, piece)
      [] piece.type = QUEEN -> get_queen_moves(b, piece)
      [] piece.type = KING -> get_king_moves(b, piece)

(* "if piece_moves: possible_moves[piece] = piece_moves" *)
WithMoves(moves) == [pos \in {q \in DOMAIN moves : moves[q] # <<>>} |-> moves[pos]]

(* get_legal_moves that keeps the pieces without a move, with empty lists *)
get_legal_moves_keep_empty(b, color) ==
    LET own == {pos \in DOMAIN b.pieces : b.pieces[pos].color = color}
    IN [pos \in own |-> PieceMoves(b, b.pieces[pos])]

(* Dict[Piece, List[Move]]: the pieces of the color that have a move,     *)
(* each identified by the square it stands on.                            *)
get_legal_moves(b, color) ==
    WithMoves([pos \in {q \in DOMAIN b.pieces : b.pieces[q].color = color} |->
                  PieceMoves(b, b.pieces[pos])])

Range(s) == {s[i] : i \in DOMAIN s}

MoveSet(legal_moves) == UNION {Range(legal_moves[k]) : k \in DOMAIN legal_moves}

(* ---- sight set (to_fow_fen lines 75-83, to_fow_array lines 715-723) ---- *)
MoveTargets(possible_moves) ==
    UNION {{possible_moves[k][i].to_position : i \in DOMAIN possible_moves[k]} :
           k \in DOMAIN possible_moves}

Sight(b, color) ==
    {b.pieces[pos].position : pos \in {q \in DOMAIN b.pieces : b.pieces[q].color = color}}
    \cup MoveTargets(get_legal_moves(b, color))

(* ---- text serialisation ---- *)
Upper(t) ==
    CASE t = PAWN -> "P" [] t = KNIGHT -> "N" [] t = BISHOP -> "B"
      [] t = ROOK -> "R" [] t = QUEEN -> "Q" [] t = KING -> "K"

PieceLetter(piece) == IF piece.color = WHITE THEN Upper(piece.type) ELSE piece.type

Flush(rank_str, empty_counter) ==
    IF empty_counter # 0 THEN rank_str \o Str(empty_counter) ELSE rank_str

(* inner loop of to_fen: "for file in range(1, 9)" and the trailing flush *)
RECURSIVE FenRank(_, _, _, _, _)
FenRank(b, rank, file, empty_counter, rank_str) ==
    IF file > 8 THEN Flush(rank_str, empty_counter)
    ELSE LET piece == Get(b.pieces, Pos(rank, file)) IN
         IF piece # None
         THEN FenRank(b, rank, file + 1, 0,
                      Append(Flush(rank_str, empty_counter), PieceLetter(piece)))
         ELSE FenRank(b, rank, file + 1, empty_counter + 1, rank_str)

(* inner loop of to_fow_fen *)
RECURSIVE FowFenRank(_, _, _, _, _, _)
FowFenRank(b, sight, rank, file, empty_counter, rank_str) ==
    IF file > 8 THEN Flush(rank_str, empty_counter)
    ELSE LET piece == Get(b.pieces, Pos(rank, file)) IN
         IF Pos(rank, file) \in sight
         THEN IF piece # None
              THEN FowFenRank(b, sight, rank, file + 1, 0,
                       Append(Flush(rank_str, empty_counter), PieceLetter(piece)))
              ELSE FowFenRank(b, sight, rank, file + 1, empty_counter + 1, rank_str)
         ELSE FowFenRank(b, sight, rank, file + 1, 0,
                  Append(Flush(rank_str, empty_counter), "U"))

(* "/".join(ranks), ranks[i] being the string of rank 9 - i *)
RECURSIVE JoinRanks(_, _)
JoinRanks(ranks, i) ==
    IF i > 8 THEN <<>>
    ELSE (IF i = 1 THEN <<>> ELSE <<"/">>) \o ranks[i] \o JoinRanks(ranks, i + 1)

Flag(cond, ch) == IF cond THEN <<ch>> ELSE <<>>

OrDash(str) == IF str = <<>> THEN <<"-">> ELSE str

JoinFields(placement, stm, castling_str, en_passant_str, halfmove, fullmove) ==
    placement \o <<" ">> \o stm \o <<" ">> \o castling_str \o <<" ">>
    \o en_passant_str \o <<" ">> \o halfmove \o <<" ">> \o fullmove

to_fen(b) ==
    LET ranks == [i \in 1..8 |-> FenRank(b, 9 - i, 1, 0, <<>>)]
        stm == IF b.side_to_move = WHITE THEN <<"w">> ELSE <<"b">>
        castling_str == OrDash(Flag(b.castling[WHITE][1], "K") \o Flag(b.castling[WHITE][2], "Q")
                               \o Flag(b.castling[BLACK][1], "k") \o Flag(b.castling[BLACK][2], "q"))
        en_passant_str == IF b.en_passant # None THEN ToSan(b.en_passant) ELSE <<"-">>
    IN JoinFields(JoinRanks(ranks, 1), stm, castling_str, en_passant_str,
                  Str(b.halfmove_clock), Str(b.fullmove_number))

FowPlacement(b, sight) ==
    LET ranks == [i \in 1..8 |-> FowFenRank(b, sight, 9 - i, 1, 0, <<>>)]
    IN JoinRanks(ranks, 1)

(* the fields of to_fow_fen with the halfmove clock of the board, as to_fen has it *)
FowFieldsWithClock(b, color, sight) ==
    LET stm == IF b.side_to_move = WHITE THEN <<"w">> ELSE <<"b">>
        castling_str ==
            OrDash(IF color = WHITE
                   THEN Flag(b.castling[WHITE][1], "K") \o Flag(b.castling[WHITE][2], "Q")
                   ELSE Flag(b.castling[BLACK][1], "k") \o Flag(b.castling[BLACK][2], "q"))
        en_passant_str == IF b.en_passant # None /\ b.en_passant \in sight
                          THEN ToSan(b.en_passant) ELSE <<"-">>
    IN JoinFields(FowPlacement(b, sight), stm, castling_str, en_passant_str,
                  Str(b.halfmove_clock), Str(b.fullmove_number))

(* the fields of to_fow_fen, given its sight set (lines 84-146) *)
FowFields(b, color, sight) ==
    LET stm == IF b.side_to_move = WHITE THEN <<"w">> ELSE <<"b">>
        castling_str ==
            OrDash(IF color = WHITE
                   THEN Flag(b.castling[WHITE][1], "K") \o Flag(b.castling[WHITE][2], "Q")
                   ELSE Flag(b.castling[BLACK][1], "k") \o Flag(b.castling[BLACK][2], "q"))
        en_passant_str == IF b.en_passant # None /\ b.en_passant \in sight
                          THEN ToSan(b.en_passant) ELSE <<"-">>
    IN JoinFields(FowPlacement(b, sight), stm, castling_str, en_passant_str,
                  <<"0">>, Str(b.fullmove_number))

(* to_fow_fen that shows the castling rights of both colors, as to_fen does *)
to_fow_fen_all_rights(b, color) ==
    LET sight == Sight(b, color)
        stm == IF b.side_to_move = WHITE THEN <<"w">> ELSE <<"b">>
        castling_str ==
            OrDash(Flag(b.castling[WHITE][1], "K") \o Flag(b.castling[WHITE][2], "Q")
                   \o Flag(b.castling[BLACK][1], "k") \o Flag(b.castling[BLACK][2], "q"))
        en_passant_str == IF b.en_passant # None /\ b.en_passant \in sight
                          THEN ToSan(b.en_passant) ELSE <<"-">>
    IN JoinFields(FowPlacement(b, sight), stm, castling_str, en_passant_str,
                  <<"0">>, Str(b.fullmove_number))

(* to_fow_fen whose sight set is only the squares the color occupies *)
to_fow_fen_own_squares(b, color) ==
    LET sight == {b.pieces[pos].position :
                     pos \in {q \in DOMAIN b.pieces : b.pieces[q].color = color}}
        stm == IF b.side_to_move = WHITE THEN <<"w">> ELSE <<"b">>
        castling_str ==
            OrDash(IF color = WHITE
                   THEN Flag(b.castling[WHITE][1], "K") \o Flag(b.castling[WHITE][2], "Q")
                   ELSE Flag(b.castling[BLACK][1], "k") \o Flag(b.castling[BLACK][2], "q"))
        en_passant_str == IF b.en_passant # None /\ b.en_passant \in sight
                          THEN ToSan(b.en_passant) ELSE <<"-">>
    IN JoinFields(FowPlacement(b, sight), stm, castling_str, en_passant_str,
                  <<"0">>, Str(b.fullmove_number))

to_fow_fen(b, color) == FowFields(b, color, Sight(b, color))

(* ---- tensor serialisation: the 8x8x20 boolean array as a function    *)
(*      from the channel to the set of cells <<rank, file>> (0-based, as   *)
(*      the numpy array is indexed) that hold 1 in that channel ---- *)
Channels == 0..19

AllCells == {<<r, f>> : r \in 0..7, f \in 0..7}

CellOf(pos) == <<pos.rank - 1, pos.file - 1>>

PieceChannel(color, type) == 7 + ColorValue(color) * 6 + TypeOrdinal(type)

(* array[:, :, 0..4] and array[:, :, 6] *)
BroadcastPlane(b, ch) ==
    CASE ch = 0 -> IF b.castling[WHITE][1] THEN AllCells ELSE {}
      [] ch = 1 -> IF b.castling[WHITE][2] THEN AllCells ELSE {}
      [] ch = 2 -> IF b.castling[BLACK][1] THEN AllCells ELSE {}
      [] ch = 3 -> IF b.castling[BLACK][2] THEN AllCells ELSE {}
      [] ch = 4 -> IF b.side_to_move = WHITE THEN AllCells ELSE {}
      [] ch = 6 -> AllCells
      [] OTHER -> {}

EnPassantMark(b) ==
    IF b.en_passant.rank = 3
    THEN [channel |-> PieceChannel(WHITE, PAWN), cell |-> <<0, b.en_passant.file - 1>>]
    ELSE [channel |-> PieceChannel(BLACK, PAWN), cell |-> <<7, b.en_passant.file - 1>>]

(* the planes of to_fow_array, given its sight set (lines 724-772) *)
FowPlanes(b, sight) ==
    LET seen == (sight \cap Squares) \cap DOMAIN b.pieces
        marked == b.en_passant # None /\ b.en_passant \in sight
    IN [ch \in Channels |->
          IF ch = 5 THEN {CellOf(pos) : pos \in sight \cap Squares}
          ELSE IF ch \in 7..18
          THEN {CellOf(pos) : pos \in {q \in seen :
                    PieceChannel(b.pieces[q].color, b.pieces[q].type) = ch}}
               \cup (IF marked /\ EnPassantMark(b).channel = ch
                     THEN {EnPassantMark(b).cell} ELSE {})
          ELSE BroadcastPlane(b, ch)]

(* to_fow_array that fills the piece planes as to_array does *)
to_fow_array_unmasked(b, color) ==
    LET sight == Sight(b, color)
        seen == DOMAIN b.pieces
        marked == b.en_passant # None /\ b.en_passant \in sight
    IN [ch \in Channels |->
          IF ch = 5 THEN {CellOf(pos) : pos \in sight \cap Squares}
          ELSE IF ch \in 7..18
          THEN {CellOf(pos) : pos \in {q \in seen :
                    PieceChannel(b.pieces[q].color, b.pieces[q].type) = ch}}
               \cup (IF marked /\ EnPassantMark(b).channel = ch
                     THEN {EnPassantMark(b).cell} ELSE {})
          ELSE BroadcastPlane(b, ch)]

to_fow_array(b, color) == FowPlanes(b, Sight(b, color))

(* lines 665-711 *)
to_array(b) ==
    [ch \in Channels |->
        IF ch = 5 THEN {<<b.halfmove_clock \div 8, b.halfmove_clock % 8>>}
        ELSE IF ch \in 7..18
        THEN {CellOf(pos) : pos \in {q \in DOMAIN b.pieces :
                  PieceChannel(b.pieces[q].color, b.pieces[q].type) = ch}}
             \cup (IF b.en_passant # None /\ EnPassantMark(b).channel = ch
                   THEN {EnPassantMark(b).cell} ELSE {})
        ELSE BroadcastPlane(b, ch)]

(* ---- move application ---- *)
(* NewRookPosition that only knows the first rank *)
NewRookPositionFirstRank(to) ==
    IF to.file = 3 THEN Pos(1, 4) ELSE Pos(1, 6)

NewRookPosition(to) ==
    IF to = Pos(8, 3) THEN Pos(8, 4)
    ELSE IF to = Pos(8, 7) THEN Pos(8, 6)
    ELSE IF to = Pos(1, 3) THEN Pos(1, 4)
    ELSE Pos(1, 6)

(* NewEnPassant with the target always one rank above the origin *)
NewEnPassantUp(move) ==
    IF move.piece.type = PAWN
       /\ Abs(PieceRank(move.piece) - move.to_position.rank) = 2
    THEN Pos(PieceRank(move.piece) + 1, PieceFile(move.piece))
    ELSE None

(* lines 279-290; move.piece still has its origin position *)
NewEnPassant(move) ==
    IF move.piece.type = PAWN
       /\ Abs(PieceRank(move.piece) - move.to_position.rank) = 2
    THEN Pos(IF move.piece.color = BLACK THEN PieceRank(move.piece) - 1
             ELSE PieceRank(move.piece) + 1,
             PieceFile(move.piece))
    ELSE None

(* UpdateCastling without the two assignments made for a king *)
UpdateCastlingRooksOnly(cs, moved) ==
    IF moved.type = ROOK \/ moved.type = KING
    THEN IF moved.color = WHITE
         THEN LET c1 == IF PieceRank(moved) = 7 /\ PieceFile(moved) = 0
                        THEN [cs EXCEPT ![WHITE][1] = FALSE] ELSE cs
              IN IF PieceRank(moved) = 7 /\ PieceFile(moved) = 7
                 THEN [c1 EXCEPT ![WHITE][2] = FALSE] ELSE c1
         ELSE LET c1 == IF PieceRank(moved) = 0 /\ PieceFile(moved) = 0
                        THEN [cs EXCEPT ![BLACK][1] = FALSE] ELSE cs
              IN IF PieceRank(moved) = 0 /\ PieceFile(moved) = 7
                 THEN [c1 EXCEPT ![BLACK][2] = FALSE] ELSE c1
    ELSE cs

(* lines 325-340; moved is move.piece after it was relocated and promoted *)
UpdateCastling(cs, moved) ==
    IF moved.type = ROOK \/ moved.type = KING
    THEN IF moved.color = WHITE
         THEN LET c1 == IF PieceRank(moved) = 7 /\ PieceFile(moved) = 0
                        THEN [cs EXCEPT ![WHITE][1] = FALSE] ELSE cs
                  c2 == IF PieceRank(moved) = 7 /\ PieceFile(moved) = 7
                        THEN [c1 EXCEPT ![WHITE][2] = FALSE] ELSE c1
              IN IF moved.type = KING THEN [c2 EXCEPT ![WHITE] = <<FALSE, FALSE>>] ELSE c2
         ELSE LET c1 == IF PieceRank(moved) = 0 /\ PieceFile(moved) = 0
                        THEN [cs EXCEPT ![BLACK][1] = FALSE] ELSE cs
                  c2 == IF PieceRank(moved) = 0 /\ PieceFile(moved) = 7
                        THEN [c1 EXCEPT ![BLACK][2] = FALSE] ELSE c1
              IN IF moved.type = KING THEN [c2 EXCEPT ![BLACK] = <<FALSE, FALSE>>] ELSE c2
    ELSE cs

(* lines 352-356; moved is move.piece after promotion *)
UpdateHalfmoveClock(hmc, moved, move) ==
    IF moved.type = PAWN \/ move.capture_target # None THEN 0 ELSE hmc + 1

(* Outcome with the king test made on the moving piece *)
OutcomeByMover(hmc, move) ==
    IF move.capture_target # None /\ move.piece.type = KING
    THEN move.piece.color
    ELSE IF hmc >= DrawClock THEN DRAW ELSE NoOutcome

(* Outcome with the draw reported one move late *)
OutcomeLateDraw(hmc, move) ==
    IF move.capture_target # None /\ move.capture_target.type = KING
    THEN move.piece.color
    ELSE IF hmc > DrawClock THEN DRAW ELSE NoOutcome

(* lines 359-362 *)
Outcome(hmc, move) ==
    IF move.capture_target # None /\ move.capture_target.type = KING
    THEN move.piece.color
    ELSE IF hmc >= DrawClock THEN DRAW ELSE NoOutcome

(* CastleRook that re-keys the rook without updating its position *)
CastleRookStalePosition(ps, move) ==
    IF move.castling_rook # None
    THEN LET rook_at == IF move.castling_rook = move.piece
                        THEN move.to_position
                        ELSE move.castling_rook.position
             new_rook_position == NewRookPosition(move.to_position)
         IN Put(Del(ps, rook_at), new_rook_position, move.castling_rook)
    ELSE ps

(* lines 298-323 *)
CastleRook(ps, move) ==
    IF move.castling_rook # None
    THEN LET rook_at == IF move.castling_rook = move.piece
                        THEN move.to_position
                        ELSE move.castling_rook.position
             new_rook_position == NewRookPosition(move.to_position)
         IN Put(Del(ps, rook_at), new_rook_position,
                [move.castling_rook EXCEPT !.position = new_rook_position])
    ELSE ps

(* Applied with the captured piece removed from the destination square *)
AppliedCaptureOnDestination(b, move) ==
    LET p1 == Del(b.pieces, move.piece.position)
        p2 == IF move.capture_target # None
              THEN Del(p1, move.to_position) ELSE p1
        relocated == [move.piece EXCEPT !.position = move.to_position]
        moved == IF move.promotion_piece # NoType
                 THEN [relocated EXCEPT !.type = move.promotion_piece]
                 ELSE relocated
        p3 == Put(p2, move.to_position, moved)
        p4 == CastleRook(p3, move)
        stm == IF b.side_to_move = BLACK THEN WHITE ELSE BLACK
    IN BoardOf(p4, UpdateCastling(b.castling, moved), stm, NewEnPassant(move),
               UpdateHalfmoveClock(b.halfmove_clock, moved, move),
               IF stm = WHITE THEN b.fullmove_number + 1 ELSE b.fullmove_number)

(* Applied with fullmove_number incremented on every move *)
AppliedCountingEveryMove(b, move) ==
    LET p1 == Del(b.pieces, move.piece.position)
        p2 == IF move.capture_target # None
              THEN Del(p1, move.capture_target.position) ELSE p1
        relocated == [move.piece EXCEPT !.position = move.to_position]
        moved == IF move.promotion_piece # NoType
                 THEN [relocated EXCEPT !.type = move.promotion_piece]
                 ELSE relocated
        p3 == Put(p2, move.to_position, moved)
        p4 == CastleRook(p3, move)
        stm == IF b.side_to_move = BLACK THEN WHITE ELSE BLACK
    IN BoardOf(p4, UpdateCastling(b.castling, moved), stm, NewEnPassant(move),
               UpdateHalfmoveClock(b.halfmove_clock, moved, move),
               b.fullmove_number + 1)

(* the board after apply_move(move) *)
Applied(b, move) ==
    LET p1 == Del(b.pieces, move.piece.position)
        p2 == IF move.capture_target # None
              THEN Del(p1, move.capture_target.position) ELSE p1
        relocated == [move.piece EXCEPT !.position = move.to_position]
        moved == IF move.promotion_piece # NoType
                 THEN [relocated EXCEPT !.type = move.promotion_piece]
                 ELSE relocated
        p3 == Put(p2, move.to_position, moved)
        p4 == CastleRook(p3, move)
        stm == IF b.side_to_move = BLACK THEN WHITE ELSE BLACK
    IN BoardOf(p4, UpdateCastling(b.castling, moved), stm, NewEnPassant(move),
               UpdateHalfmoveClock(b.halfmove_clock, moved, move),
               IF stm = WHITE THEN b.fullmove_number + 1 ELSE b.fullmove_number)

(* ---- boards the model starts from (Board(fen), lines 148-180) ---- *)
W(t, r, f) == Piece(t, WHITE, Pos(r, f))

B(t, r, f) == Piece(t, BLACK, Pos(r, f))

Place(ps) == [pos \in {p.position : p \in ps} |-> CHOOSE p \in ps : p.position = pos]

Rights(wk, wq, bk, bq) == (WHITE :> <<wk, wq>>) @@ (BLACK :> <<bk, bq>>)

(* rnbqkbnr/pppppppp/8/8/8/8/PPPPPPPP/RNBQKBNR w KQkq - 0 1 *)
BackRank == <<ROOK, KNIGHT, BISHOP, QUEEN, KING, BISHOP, KNIGHT, ROOK>>

StartBoard ==
    BoardOf(Place({W(BackRank[f], 1, f) : f \in 1..8} \cup {W(PAWN, 2, f) : f \in 1..8}
                  \cup {B(PAWN, 7, f) : f \in 1..8} \cup {B(BackRank[f], 8, f) : f \in 1..8}),
            Rights(TRUE, TRUE, TRUE, TRUE), WHITE, None, 0, 1)

(* r3k2r/p6p/8/8/8/6n1/P6P/R3K2R, or R3KN1R with a knight on f1;           *)
(* all four rights still set                                               *)
CastleBoard(stm, f1_occupied) ==
    BoardOf(Place({W(ROOK, 1, 1), W(KING, 1, 5), W(ROOK, 1, 8),
                   W(PAWN, 2, 1), W(PAWN, 2, 8), B(KNIGHT, 3, 7),
                   B(PAWN, 7, 1), B(PAWN, 7, 8),
                   B(ROOK, 8, 1), B(KING, 8, 5), B(ROOK, 8, 8)}
                  \cup (IF f1_occupied THEN {W(KNIGHT, 1, 6)} ELSE {})),
            Rights(TRUE, TRUE, TRUE, TRUE), stm, None, 4, 20)

(* n6k/1P1p1p2/8/4P3/7p/8/2p3P1/K2N4, no rights left *)
PawnBoard(stm) ==
    BoardOf(Place({W(KING, 1, 1), W(KNIGHT, 1, 4), W(PAWN, 2, 7), W(PAWN, 5, 5),
                   W(PAWN, 7, 2), B(PAWN, 2, 3), B(PAWN, 4, 8), B(PAWN, 7, 4),
                   B(PAWN, 7, 6), B(KNIGHT, 8, 1), B(KING, 8, 8)}),
            Rights(FALSE, FALSE, FALSE, FALSE), stm, None, 0, 30)

(* r6k/8/8/2p5/3B4/4P3/8/K7, no rights left *)
SliderBoard(stm, hmc) ==
    BoardOf(Place({W(KING, 1, 1), W(PAWN, 3, 5), W(BISHOP, 4, 4),
                   B(PAWN, 5, 3), B(ROOK, 8, 1), B(KING, 8, 8)}),
            Rights(FALSE, FALSE, FALSE, FALSE), stm, None, hmc, 40)

(* R6k/3p4/8/4P3/8/8/8/K7, no rights left *)
MarkBoard(stm) ==
    BoardOf(Place({W(KING, 1, 1), W(PAWN, 5, 5), W(ROOK, 8, 1),
                   B(PAWN, 7, 4), B(KING, 8, 8)}),
            Rights(FALSE, FALSE, FALSE, FALSE), stm, None, 7, 10)

(* 4k3/3p4/3P4/8/6p1/1np5/1P4PP/4K3, no rights left: pawns with a piece  *)
(* on the square in front of them or on the one after                      *)
BlockBoard(stm) ==
    BoardOf(Place({W(KING, 1, 5), W(PAWN, 2, 2), W(PAWN, 2, 7), W(PAWN, 2, 8),
                   W(PAWN, 6, 4), B(KNIGHT, 3, 2), B(PAWN, 3, 3), B(PAWN, 4, 7),
                   B(PAWN, 7, 4), B(KING, 8, 5)}),
            Rights(FALSE, FALSE, FALSE, FALSE), stm, None, 2, 25)

(* 4k3/p7/8/8/8/6R1/8/R3K3 w Q - 3 30: the king's rook has left its      *)
(* corner, the queen's rook and the king have not moved                    *)
RookBoard ==
    BoardOf(Place({W(ROOK, 1, 1), W(KING, 1, 5), W(ROOK, 3, 7),
                   B(PAWN, 7, 1), B(KING, 8, 5)}),
            Rights(FALSE, TRUE, FALSE, FALSE), WHITE, None, 3, 30)

InitBoards ==
    {CastleBoard(WHITE, TRUE), CastleBoard(BLACK, FALSE)}
    \cup {PawnBoard(stm) : stm \in Colors}
    \cup {SliderBoard(WHITE, DrawClock - 1), SliderBoard(BLACK, 0)}
    \cup {BlockBoard(stm) : stm \in Colors}
    \cup {RookBoard}

(* the boards on which the fog encoders are examined for both colors *)
FogBoards ==
    {CastleBoard(WHITE, TRUE), CastleBoard(BLACK, FALSE)}
    \cup {PawnBoard(stm) : stm \in Colors}
    \cup {SliderBoard(stm, 0) : stm \in Colors}
    \cup {MarkBoard(stm) : stm \in Colors}

(* the squares over which the caller of the 50-move scenario moves pieces  *)
(* back and forth: g1 f3, g8 f6, and h8                                    *)
ShuffleZone == {Pos(1, 7), Pos(3, 6), Pos(8, 7), Pos(6, 6), Pos(8, 8)}

ShuffleBoards ==
    {StartBoard}
    \cup {SliderBoard(stm, hmc) : stm \in Colors, hmc \in {DrawClock - 2, DrawClock - 1, DrawClock}}

(* ---- the state machine ---- *)
NoColor == "None"         \* no color argument

Called(op, color, value, repeated) ==
    [op |-> op, color |-> color, value |-> value, repeated |-> repeated]

Construct(b) ==
    /\ pieces = b.pieces
    /\ castling = b.castling
    /\ side_to_move = b.side_to_move
    /\ en_passant = b.en_passant
    /\ halfmove_clock = b.halfmove_clock
    /\ fullmove_number = b.fullmove_number
    /\ fen = to_fen(b)
    /\ fow_fen = to_fow_fen(b, b.side_to_move)
    /\ lastMove = None
    /\ result = NoOutcome
    /\ prev = None
    /\ ply = 0
    /\ quiet_run = IF b.halfmove_clock = 0 THEN 0 ELSE -1
    /\ first = b
    /\ black_moves = 0
    /\ call = Called("__init__", NoColor, NoOutcome, FALSE)

Init == \E b \in InitBoards : Construct(b)

InitShuffle == \E b \in ShuffleBoards : Construct(b)

InitFog == \E b \in FogBoards : Construct(b)

IsQuiet(move) == move.piece.type # PAWN /\ move.capture_target = None

(* apply_move that recomputes fow_fen for the color that has just moved *)
apply_move_fow_for_mover(move) ==
    LET nb == Applied(Self, move) IN
    /\ pieces' = nb.pieces
    /\ castling' = nb.castling
    /\ side_to_move' = nb.side_to_move
    /\ en_passant' = nb.en_passant
    /\ halfmove_clock' = nb.halfmove_clock
    /\ fullmove_number' = nb.fullmove_number
    /\ fow_fen' = to_fow_fen(nb, side_to_move)
    /\ fen' = to_fen(nb)
    /\ result' = Outcome(nb.halfmove_clock, move)
    /\ lastMove' = move
    /\ prev' = Self
    /\ ply' = ply + 1
    /\ quiet_run' = IF nb.halfmove_clock = 0 THEN 0
                    ELSE IF IsQuiet(move) /\ quiet_run >= 0 THEN quiet_run + 1
                    ELSE -1
    /\ first' = first
    /\ black_moves' = IF move.piece.color = BLACK THEN black_moves + 1 ELSE black_moves
    /\ call' = Called("apply_move", NoColor, Outcome(nb.halfmove_clock, move), FALSE)

apply_move(move) ==
    LET nb == Applied(Self, move) IN
    /\ pieces' = nb.pieces
    /\ castling' = nb.castling
    /\ side_to_move' = nb.side_to_move
    /\ en_passant' = nb.en_passant
    /\ halfmove_clock' = nb.halfmove_clock
    /\ fullmove_number' = nb.fullmove_number
    /\ fow_fen' = to_fow_fen(nb, nb.side_to_move)
    /\ fen' = to_fen(nb)
    /\ result' = Outcome(nb.halfmove_clock, move)
    /\ lastMove' = move
    /\ prev' = Self
    /\ ply' = ply + 1
    /\ quiet_run' = IF nb.halfmove_clock = 0 THEN 0
                    ELSE IF IsQuiet(move) /\ quiet_run >= 0 THEN quiet_run + 1
                    ELSE -1
    /\ first' = first
    /\ black_moves' = IF move.piece.color = BLACK THEN black_moves + 1 ELSE black_moves
    /\ call' = Called("apply_move", NoColor, Outcome(nb.halfmove_clock, move), FALSE)

(* the caller applies a move generated for the side to move *)
Play ==
    /\ ply < MaxPly
    /\ \E move \in MoveSet(get_legal_moves(Self, side_to_move)) : apply_move(move)

(* the same caller, on the boards of the fog encoders *)
PlayFog ==
    /\ ply < MaxFogPly
    /\ \E move \in MoveSet(get_legal_moves(Self, side_to_move)) : apply_move(move)

(* the same caller, where the text serialisation is read back *)
PlayCodec ==
    /\ ply < MaxCodecPly
    /\ \E move \in MoveSet(get_legal_moves(Self, side_to_move)) : apply_move(move)

(* the same caller, where the fog outputs of boards that differ in what   *)
(* is hidden are compared                                                  *)
PlayHidden ==
    /\ ply < MaxHiddenPly
    /\ \E move \in MoveSet(get_legal_moves(Self, side_to_move)) : apply_move(move)

(* the caller moves pieces back and forth over ShuffleZone *)
Shuffle ==
    /\ ply < MaxShufflePly
    /\ \E move \in MoveSet(get_legal_moves(Self, side_to_move)) :
          /\ move.to_position \in ShuffleZone
          /\ apply_move(move)

(* ---- the queries, called by a caller that keeps what they return ---- *)
BoardVars == <<pieces, castling, side_to_move, en_passant, halfmove_clock,
               fullmove_number, fen, fow_fen>>

HistoryVars == <<lastMove, result, prev, ply, quiet_run, first, black_moves>>

Repeated(op, color) == call.op = op /\ call.color = color

QueryLegalMoves(color) ==
    /\ call' = Called("get_legal_moves", color, get_legal_moves(Self, color),
                      Repeated("get_legal_moves", color))
    /\ UNCHANGED <<BoardVars, HistoryVars>>

QueryFen ==
    /\ call' = Called("to_fen", NoColor, to_fen(Self), Repeated("to_fen", NoColor))
    /\ UNCHANGED <<BoardVars, HistoryVars>>

(* to_fow_fen that stores what it returns in fow_fen *)
QueryFowFenCaching(color) ==
    /\ call' = Called("to_fow_fen", color, to_fow_fen(Self, color),
                      Repeated("to_fow_fen", color))
    /\ fow_fen' = to_fow_fen(Self, color)
    /\ UNCHANGED <<pieces, castling, side_to_move, en_passant, halfmove_clock,
                   fullmove_number, fen, HistoryVars>>

QueryFowFen(color) ==
    /\ call' = Called("to_fow_fen", color, to_fow_fen(Self, color),
                      Repeated("to_fow_fen", color))
    /\ UNCHANGED <<BoardVars, HistoryVars>>

QueryArray ==
    /\ call' = Called("to_array", NoColor, to_array(Self), Repeated("to_array", NoColor))
    /\ UNCHANGED <<BoardVars, HistoryVars>>

QueryFowArray(color) ==
    /\ call' = Called("to_fow_array", color, to_fow_array(Self, color),
                      Repeated("to_fow_array", color))
    /\ UNCHANGED <<BoardVars, HistoryVars>>

(* the caller of the queries applies moves as the other callers do *)
PlayQuery ==
    /\ ply < MaxQueryPly
    /\ \E move \in MoveSet(get_legal_moves(Self, side_to_move)) : apply_move(move)

QueryBoards == {MarkBoard(BLACK), SliderBoard(WHITE, 0), PawnBoard(BLACK)}

InitQuery == \E b \in QueryBoards : Construct(b)

NextQuery ==
    \/ PlayQuery
    \/ \E color \in Colors : QueryLegalMoves(color)
    \/ QueryFen
    \/ \E color \in Colors : QueryFowFen(color)
    \/ QueryArray
    \/ \E color \in Colors : QueryFowArray(color)

SpecQuery == InitQuery /\ [][NextQuery]_vars

Next == Play

NextShuffle == Shuffle

NextFog == PlayFog

NextCodec == PlayCodec

NextHidden == PlayHidden

Spec == Init /\ [][Next]_vars

SpecShuffle == InitShuffle /\ [][NextShuffle]_vars

SpecFog == InitFog /\ [][NextFog]_vars

SpecCodec == Init /\ [][NextCodec]_vars

SpecHidden == InitFog /\ [][NextHidden]_vars

TypeOK ==
    /\ DOMAIN pieces \subseteq Squares
    /\ side_to_move \in Colors
    /\ halfmove_clock \in Nat
    /\ result \in {NoOutcome, WHITE, BLACK, DRAW}

(***************************************************************************)
(* Properties.  lastMove is the move the last apply_move was given, prev   *)
(* the board it was generated from, result what apply_move returned.       *)
(***************************************************************************)
Moved == lastMove # None

Origin == lastMove.piece.position

KingCaptured ==
    /\ lastMove.capture_target # None
    /\ lastMove.capture_target.type = KING

(* C1: a move whose capture target is a king makes apply_move return the   *)
(* color of the moving piece, whatever the halfmove clock was or becomes;  *)
(* never the draw outcome, never no outcome.                               *)
C1_KingCaptureWins ==
    (Moved /\ KingCaptured) =>
        /\ result = lastMove.piece.color
        /\ result \in Colors

(* a king is captured by a move made when the clock stood at 49 *)
C1_Witness ==
    /\ Moved
    /\ KingCaptured
    /\ prev.halfmove_clock = DrawClock - 1
    /\ result = lastMove.piece.color

(* C2: apply_move returns the draw outcome exactly when no king was        *)
(* captured and the halfmove clock has reached 50 after the move; of 50    *)
(* consecutive moves that are neither pawn moves nor captures, starting    *)
(* with the clock at 0, the first 49 return no outcome and the 50th draw.  *)
C2_FiftyMoveDraw ==
    /\ Moved => (result = DRAW <=> (~KingCaptured /\ halfmove_clock >= DrawClock))
    /\ (quiet_run >= 1 /\ quiet_run < DrawClock) => result = NoOutcome
    /\ quiet_run >= DrawClock => result = DRAW

(* the 50th quiet move in a row since the clock was 0 *)
C2_Witness ==
    /\ quiet_run = DrawClock
    /\ prev.halfmove_clock = DrawClock - 1
    /\ result = DRAW

(* C3: apply_move resets halfmove_clock to 0 for every move of a piece     *)
(* that was a pawn when the move was generated (promotions included) and   *)
(* for every capture; every other move increases it by exactly 1.          *)
C3_ClockResetOnPawnMoveOrCapture ==
    Moved =>
        halfmove_clock =
            IF lastMove.piece.type = PAWN \/ lastMove.capture_target # None
            THEN 0
            ELSE prev.halfmove_clock + 1

(* C4: after a rook move from one of its color's original corners the      *)
(* right of that color for that side is false; after any king move both    *)
(* rights of the king's color are false.                                   *)
HomeRank(color) == IF color = WHITE THEN 1 ELSE 8

C4_RightsClearedByRookAndKing ==
    Moved =>
        LET color == lastMove.piece.color IN
        /\ (lastMove.piece.type = ROOK /\ Origin = Pos(HomeRank(color), 8))
               => ~castling[color][1]
        /\ (lastMove.piece.type = ROOK /\ Origin = Pos(HomeRank(color), 1))
               => ~castling[color][2]
        /\ lastMove.piece.type = KING => castling[color] = <<FALSE, FALSE>>

(* C5: after apply_move en_passant is set iff the move was a pawn          *)
(* advancing exactly two ranks, and then it is the square on the pawn's    *)
(* file on the rank between origin and destination; a target set by one    *)
(* move is gone after the next unless that one is a two-square advance.    *)
TwoSquareAdvance ==
    /\ lastMove.piece.type = PAWN
    /\ Abs(lastMove.to_position.rank - Origin.rank) = 2

C5_EnPassantOnePly ==
    Moved =>
        /\ en_passant # None <=> TwoSquareAdvance
        /\ TwoSquareAdvance =>
               /\ en_passant = Pos((Origin.rank + lastMove.to_position.rank) \div 2,
                                   Origin.file)
               /\ en_passant.file = lastMove.to_position.file
               /\ en_passant \notin DOMAIN pieces
        /\ (prev.en_passant # None /\ ~TwoSquareAdvance) => en_passant = None

(* a target set by the move before last has been cleared by the last move *)
C5_Witness ==
    /\ Moved
    /\ prev.en_passant # None
    /\ ~TwoSquareAdvance
    /\ en_passant = None

(* C6: a pawn has an en-passant capture move iff an en-passant target     *)
(* exists, the pawn stands on rank 5 (WHITE, target on rank 6) or rank 4   *)
(* (BLACK, target on rank 3) and its file differs from the target's by     *)
(* one; then it has exactly one, to the target square, capturing the       *)
(* enemy pawn that stands beside the mover on the target's file.           *)
(* An en-passant capture is a capture of a piece not on the destination.   *)
IsEnPassantCapture(move) ==
    /\ move.capture_target # None
    /\ move.capture_target.position # move.to_position

CanCaptureEnPassant(pawn) ==
    /\ en_passant # None
    /\ \/ pawn.color = WHITE /\ pawn.position.rank = 5 /\ en_passant.rank = 6
       \/ pawn.color = BLACK /\ pawn.position.rank = 4 /\ en_passant.rank = 3
    /\ Abs(pawn.position.file - en_passant.file) = 1

Pawns == {pos \in DOMAIN pieces : pieces[pos].type = PAWN}

C6_EnPassantCapture ==
    \A pos \in Pawns :
        LET moves == get_pawn_moves(Self, pieces[pos])
            eps == {i \in DOMAIN moves : IsEnPassantCapture(moves[i])}
            beside == Pos(pos.rank, en_passant.file)
        IN /\ eps # {} <=> CanCaptureEnPassant(pieces[pos])
           /\ CanCaptureEnPassant(pieces[pos]) =>
                  /\ Cardinality(eps) = 1
                  /\ \A i \in eps :
                        /\ moves[i].piece = pieces[pos]
                        /\ moves[i].to_position = en_passant
                        /\ beside \in DOMAIN pieces
                        /\ moves[i].capture_target = pieces[beside]
                        /\ pieces[beside].type = PAWN
                        /\ pieces[beside].position = beside
                        /\ pieces[beside].color # pieces[pos].color
                        /\ moves[i].promotion_piece = NoType
                        /\ moves[i].castling_rook = None

(* ... d7-d5 played against a white pawn on e5: e5 takes d6, capturing d5 *)
C6_Witness ==
    /\ Moved
    /\ en_passant = Pos(6, 4)
    /\ Get(pieces, Pos(5, 5)) = W(PAWN, 5, 5)
    /\ LET moves == get_pawn_moves(Self, W(PAWN, 5, 5)) IN
       \E i \in DOMAIN moves :
           /\ moves[i] = Move(W(PAWN, 5, 5), Pos(6, 4), B(PAWN, 5, 4), NoType, None)
           /\ \A j \in DOMAIN moves : IsEnPassantCapture(moves[j]) => j = i

(* C7: get_king_moves emits a castling move for a side iff the right of    *)
(* the king's color for that side is set, the corner of the king's rank    *)
(* on that side is occupied and every square strictly between king and     *)
(* corner is empty; the move goes two files toward the corner and carries  *)
(* the corner piece as castling_rook.                                      *)
Kings == {pos \in DOMAIN pieces : pieces[pos].type = KING}

CornerFile(side) == IF side = 1 THEN 8 ELSE 1

Between(f, g) == {x \in 1..8 : (f < x /\ x < g) \/ (g < x /\ x < f)}

MayCastle(b, king, side) ==
    /\ b.castling[king.color][side]
    /\ Pos(king.position.rank, CornerFile(side)) \in DOMAIN b.pieces
    /\ \A x \in Between(king.position.file, CornerFile(side)) :
           Pos(king.position.rank, x) \notin DOMAIN b.pieces

Toward(king, side, move) ==
    IF side = 1 THEN move.to_position.file > king.position.file
    ELSE move.to_position.file < king.position.file

CastlingMoves(b, king, side) ==
    LET moves == get_king_moves(b, king) IN
    {i \in DOMAIN moves : moves[i].castling_rook # None /\ Toward(king, side, moves[i])}

C7_CastlingGenerated ==
    \A pos \in Kings : \A side \in {1, 2} :
        LET king == pieces[pos]
            moves == get_king_moves(Self, king)
            cs == CastlingMoves(Self, king, side)
        IN /\ cs # {} <=> MayCastle(Self, king, side)
           /\ Cardinality(cs) <= 1
           /\ \A i \in cs :
                 /\ moves[i].piece = king
                 /\ moves[i].to_position =
                        Pos(pos.rank, IF side = 1 THEN pos.file + 2 ELSE pos.file - 2)
                 /\ moves[i].castling_rook = pieces[Pos(pos.rank, CornerFile(side))]
                 /\ moves[i].capture_target = None
                 /\ moves[i].promotion_piece = NoType

(* the piece on f1 has just left: king e1, rook h1, right set; the move    *)
(* to g1 was not generated before and is generated now                     *)
C7_Witness ==
    /\ Moved
    /\ Get(pieces, Pos(1, 5)) = W(KING, 1, 5)
    /\ Get(pieces, Pos(1, 8)) = W(ROOK, 1, 8)
    /\ castling[WHITE][1]
    /\ Pos(1, 6) \in DOMAIN prev.pieces
    /\ Get(prev.pieces, Pos(1, 5)) = W(KING, 1, 5)
    /\ prev.castling[WHITE][1]
    /\ CastlingMoves(prev, W(KING, 1, 5), 1) = {}
    /\ Pos(1, 6) \notin DOMAIN pieces
    /\ Move(W(KING, 1, 5), Pos(1, 7), None, NoType, W(ROOK, 1, 8))
           \in Range(get_king_moves(Self, W(KING, 1, 5)))

(* C8: after a generated castling move is applied the king stands on the   *)
(* move's destination, the castling rook on the same rank on the file      *)
(* adjacent to the king's new file (the file the king passed over), each   *)
(* keyed under its new square, and both origin squares are empty.          *)
C8_CastlingApplied ==
    (Moved /\ lastMove.castling_rook # None) =>
        LET to == lastMove.to_position
            passed == Pos(to.rank, (Origin.file + to.file) \div 2)
        IN /\ lastMove.piece.type = KING
           /\ Get(pieces, to) = [lastMove.piece EXCEPT !.position = to]
           /\ passed.rank = Origin.rank
           /\ Abs(passed.file - to.file) = 1
           /\ Abs(passed.file - Origin.file) = 1
           /\ Get(pieces, passed) = [lastMove.castling_rook EXCEPT !.position = passed]
           /\ Origin \notin DOMAIN pieces
           /\ lastMove.castling_rook.position \notin DOMAIN pieces
           /\ Cardinality(DOMAIN pieces) = Cardinality(DOMAIN prev.pieces)

(* black has castled queenside: king c8, rook d8 *)
C8_Witness ==
    /\ Moved
    /\ lastMove.castling_rook = B(ROOK, 8, 1)
    /\ Get(pieces, Pos(8, 3)) = B(KING, 8, 3)
    /\ Get(pieces, Pos(8, 4)) = B(ROOK, 8, 4)
    /\ Pos(8, 1) \notin DOMAIN pieces
    /\ Pos(8, 5) \notin DOMAIN pieces

(* ---- reading the fog encodings back ---- *)
DigitChars == {Digit(d) : d \in 0..9}

IsDigit(ch) == ch \in DigitChars

DigitValue(ch) == CHOOSE d \in 0..9 : Digit(d) = ch

Blanks(n) == [i \in 1..n |-> " "]

(* the 64 cells of a piece placement, a8 first, h1 last; "U" is unknown,   *)
(* " " is an empty square                                                  *)
RECURSIVE Cells(_, _)
Cells(str, i) ==
    IF i > Len(str) \/ str[i] = " " THEN <<>>
    ELSE (IF str[i] = "/" THEN <<>>
          ELSE IF IsDigit(str[i]) THEN Blanks(DigitValue(str[i]))
          ELSE <<str[i]>>) \o Cells(str, i + 1)

CellAt(cells, pos) == cells[(8 - pos.rank) * 8 + pos.file]

PieceChannels == 7..18

SquareOf(cell) == Pos(cell[1] + 1, cell[2] + 1)

(* the squares at which some channel 7-18 of the array holds 1 *)
PieceSquares(array) == {SquareOf(cell) : cell \in UNION {array[ch] : ch \in PieceChannels}}

(* C9 as stated: no square outside a color's sight set reveals a piece:    *)
(* it is 'U' in to_fow_fen(color) and 0 in channels 7-18 of                *)
(* to_fow_array(color), also when an en-passant target is marked.          *)
C9_NothingRevealedOutsideSight ==
    \A color \in Colors :
        LET cells == Cells(to_fow_fen(Self, color), 1)
            array == to_fow_array(Self, color)
            sight == Sight(Self, color)
        IN /\ \A pos \in Squares \ sight : CellAt(cells, pos) = "U"
           /\ PieceSquares(array) \subseteq sight

(* C9 amended: outside the sight set every square is 'U' in the text and   *)
(* 0 in channels 7-18, except the en-passant mark: when the en-passant     *)
(* target is in the sight set, the pawn plane of the vulnerable color is   *)
(* set on the far rank (rank index 0 for a target on rank 3, else 7) at    *)
(* the target's file, whether or not that square is in the sight set.      *)
MarkChannel ==
    IF en_passant.rank = 3 THEN PieceChannel(WHITE, PAWN) ELSE PieceChannel(BLACK, PAWN)

MarkCell == <<IF en_passant.rank = 3 THEN 0 ELSE 7, en_passant.file - 1>>

C9_OnlyEnPassantMarkOutsideSight ==
    \A color \in Colors :
        LET cells == Cells(to_fow_fen(Self, color), 1)
            array == to_fow_array(Self, color)
            sight == Sight(Self, color)
        IN /\ Len(cells) = 64
           /\ \A pos \in Squares \ sight : CellAt(cells, pos) = "U"
           /\ \A ch \in PieceChannels : \A cell \in array[ch] :
                  SquareOf(cell) \notin sight =>
                      /\ en_passant # None
                      /\ en_passant \in sight
                      /\ ch = MarkChannel
                      /\ cell = MarkCell
           /\ (en_passant # None /\ en_passant \in sight) => MarkCell \in array[MarkChannel]

(* an enemy piece stands outside the sight set and stays hidden, while     *)
(* the en-passant mark is set on a square outside the sight set            *)
C9_Witness ==
    \E color \in Colors :
        LET sight == Sight(Self, color)
            array == to_fow_array(Self, color)
        IN /\ Moved
           /\ en_passant # None
           /\ en_passant \in sight
           /\ MarkCell \in array[MarkChannel]
           /\ SquareOf(MarkCell) \notin sight
           /\ \E pos \in DOMAIN pieces \ sight :
                  /\ pieces[pos].color # color
                  /\ CellAt(Cells(to_fow_fen(Self, color), 1), pos) = "U"
                  /\ pos \notin PieceSquares(array)

(* C10: the squares the fog encoders show (not 'U' in the text, channel 5  *)
(* set in the tensor) are exactly the squares the color occupies together  *)
(* with the destinations of its generated moves; they include every        *)
(* square the color occupies, and no square beyond the first occupied      *)
(* square of a sliding piece's ray unless another own piece stands on it   *)
(* or can move to it.                                                      *)
Occupied(color) == {pos \in DOMAIN pieces : pieces[pos].color = color}

Destinations(color) ==
    LET moves == get_legal_moves(Self, color) IN
    UNION {{moves[k][i].to_position : i \in DOMAIN moves[k]} : k \in DOMAIN moves}

ShownInText(color) ==
    LET cells == Cells(to_fow_fen(Self, color), 1) IN
    {pos \in Squares : CellAt(cells, pos) # "U"}

ShownInArray(color) ==
    {SquareOf(cell) : cell \in to_fow_array(Self, color)[5]}

Diagonals == {<<1, 1>>, <<1, -1>>, <<-1, 1>>, <<-1, -1>>}

Orthogonals == {<<1, 0>>, <<-1, 0>>, <<0, 1>>, <<0, -1>>}

RayDirections(type) ==
    CASE type = BISHOP -> Diagonals
      [] type = ROOK -> Orthogonals
      [] type = QUEEN -> Diagonals \cup Orthogonals
      [] OTHER -> {}

Step(pos, d, n) == Pos(pos.rank + n * d[1], pos.file + n * d[2])

(* the squares of the ray from pos in direction d that lie beyond the      *)
(* first occupied square                                                   *)
BeyondBlocker(pos, d) ==
    {Step(pos, d, n) : n \in {j \in 2..7 : /\ IsValid(Step(pos, d, j))
                                           /\ \E k \in 1..(j - 1) :
                                                  Step(pos, d, k) \in DOMAIN pieces}}

ReachedByOther(color, pos, square) ==
    \E other \in Occupied(color) \ {pos} :
        \/ other = square
        \/ \E m \in Range(PieceMoves(Self, pieces[other])) : m.to_position = square

C10_SightSet ==
    \A color \in Colors :
        LET text == ShownInText(color)
            array == ShownInArray(color)
            own == Occupied(color)
        IN /\ text = own \cup Destinations(color)
           /\ array = own \cup Destinations(color)
           /\ own \subseteq text
           /\ \A pos \in own : \A d \in RayDirections(pieces[pos].type) :
                  \A square \in BeyondBlocker(pos, d) :
                      square \in text => ReachedByOther(color, pos, square)

(* a bishop's ray ends on an enemy piece, which is shown, and the next     *)
(* square of the ray is not                                                *)
C10_Witness ==
    \E color \in Colors :
        LET text == ShownInText(color)
            array == ShownInArray(color)
        IN \E pos \in Occupied(color) : \E d \in Diagonals :
               /\ Moved
               /\ pieces[pos].type = BISHOP
               /\ Step(pos, d, 1) \in DOMAIN pieces
               /\ pieces[Step(pos, d, 1)].color # color
               /\ Step(pos, d, 1) \in text
               /\ IsValid(Step(pos, d, 2))
               /\ Step(pos, d, 2) \notin text
               /\ Step(pos, d, 2) \notin array

(* ---- the fog text against the fog tensor ---- *)
PlanesAt(array, cell) == {ch \in PieceChannels : cell \in array[ch]}

(* C11 as stated: a square is 'U' in to_fow_fen(color) iff channel 5 of    *)
(* to_fow_array(color) is 0 there, and at every square with channel 5 set  *)
(* the text shows the letter of the piece standing there and exactly that  *)
(* piece's plane is set in channels 7-18, or the text shows an empty       *)
(* square and no plane is set.                                             *)
C11_EncodersAgree ==
    \A color \in Colors :
        LET cells == Cells(to_fow_fen(Self, color), 1)
            array == to_fow_array(Self, color)
        IN \A pos \in Squares :
               /\ CellAt(cells, pos) = "U" <=> CellOf(pos) \notin array[5]
               /\ CellOf(pos) \in array[5] =>
                      IF pos \in DOMAIN pieces
                      THEN /\ CellAt(cells, pos) = PieceLetter(pieces[pos])
                           /\ PlanesAt(array, CellOf(pos)) =
                                  {PieceChannel(pieces[pos].color, pieces[pos].type)}
                      ELSE /\ CellAt(cells, pos) = " "
                           /\ PlanesAt(array, CellOf(pos)) = {}

(* C11 amended: the same, except that when the en-passant target is      *)
(* visible (channel 5 set at the target) the pawn plane of the vulnerable  *)
(* color is also set on the far-rank square of the target's file, which    *)
(* the text shows as whatever stands there.                                *)
MarkAt(array, pos) ==
    IF en_passant # None /\ CellOf(en_passant) \in array[5] /\ CellOf(pos) = MarkCell
    THEN {MarkChannel} ELSE {}

C11_EncodersAgreeUpToEnPassantMark ==
    \A color \in Colors :
        LET cells == Cells(to_fow_fen(Self, color), 1)
            array == to_fow_array(Self, color)
        IN \A pos \in Squares :
               /\ CellAt(cells, pos) = "U" <=> CellOf(pos) \notin array[5]
               /\ CellOf(pos) \in array[5] =>
                      IF pos \in DOMAIN pieces
                      THEN /\ CellAt(cells, pos) = PieceLetter(pieces[pos])
                           /\ PlanesAt(array, CellOf(pos)) =
                                  {PieceChannel(pieces[pos].color, pieces[pos].type)}
                                  \cup MarkAt(array, pos)
                      ELSE /\ CellAt(cells, pos) = " "
                           /\ PlanesAt(array, CellOf(pos)) = MarkAt(array, pos)

(* a visible empty far-rank square carries the en-passant mark, a visible  *)
(* enemy piece is shown by both encoders and a hidden square by neither    *)
C11_Witness ==
    \E color \in Colors :
        LET cells == Cells(to_fow_fen(Self, color), 1)
            array == to_fow_array(Self, color)
        IN /\ Moved
           /\ en_passant # None
           /\ CellOf(en_passant) \in array[5]
           /\ MarkCell \in array[5]
           /\ SquareOf(MarkCell) \notin DOMAIN pieces
           /\ CellAt(cells, SquareOf(MarkCell)) = " "
           /\ PlanesAt(array, MarkCell) = {MarkChannel}
           /\ \E pos \in DOMAIN pieces :
                  /\ pieces[pos].color # color
                  /\ CellAt(cells, pos) = PieceLetter(pieces[pos])
                  /\ PlanesAt(array, CellOf(pos)) = {PieceChannel(pieces[pos].color, pieces[pos].type)}
           /\ \E pos \in DOMAIN pieces :
                  /\ CellAt(cells, pos) = "U"
                  /\ PlanesAt(array, CellOf(pos)) = {}

(* ---- the fields of a serialised board ---- *)
(* the space-separated fields of a string *)
RECURSIVE Fields(_)
Fields(str) ==
    IF \A i \in DOMAIN str : str[i] # " " THEN <<str>>
    ELSE LET i == CHOOSE k \in DOMAIN str :
                      str[k] = " " /\ \A j \in 1..(k - 1) : str[j] # " "
         IN <<SubSeq(str, 1, i - 1)>> \o Fields(SubSeq(str, i + 1, Len(str)))

(* the number a string of decimal digits denotes *)
RECURSIVE ToInt(_)
ToInt(str) ==
    IF str = <<>> THEN 0
    ELSE 10 * ToInt(SubSeq(str, 1, Len(str) - 1)) + DigitValue(str[Len(str)])

Other(color) == IF color = WHITE THEN BLACK ELSE WHITE

HasRights(color) == castling[color][1] \/ castling[color][2]

(* C12: to_fow_fen(color) shows castling letters only for the observing    *)
(* color's own rights ('-' if it has none), the en-passant target only if  *)
(* it is a square the color occupies or can move to ('-' otherwise), the   *)
(* halfmove clock as 0, and the real side to move and fullmove number.     *)
C12_FogFields ==
    \A color \in Colors :
        LET fields == Fields(to_fow_fen(Self, color))
            letters == Range(fields[3])
            sight == Occupied(color) \cup Destinations(color)
        IN /\ Len(fields) = 6
           /\ fields[2] = IF side_to_move = WHITE THEN <<"w">> ELSE <<"b">>
           /\ "K" \in letters <=> (color = WHITE /\ castling[WHITE][1])
           /\ "Q" \in letters <=> (color = WHITE /\ castling[WHITE][2])
           /\ "k" \in letters <=> (color = BLACK /\ castling[BLACK][1])
           /\ "q" \in letters <=> (color = BLACK /\ castling[BLACK][2])
           /\ letters \subseteq {"K", "Q", "k", "q", "-"}
           /\ fields[3] = <<"-">> <=> ~HasRights(color)
           /\ fields[4] = IF en_passant # None /\ en_passant \in sight
                          THEN <<FileLetter(en_passant.file), Digit(en_passant.rank)>>
                          ELSE <<"-">>
           /\ fields[5] = <<"0">>
           /\ \A i \in DOMAIN fields[6] : IsDigit(fields[6][i])
           /\ ToInt(fields[6]) = fullmove_number

(* after a king move the mover has no rights left and the opponent has:    *)
(* the mover's fog text shows '-', and 0 for a clock that stands above 0   *)
C12_Witness ==
    \E color \in Colors :
        LET fields == Fields(to_fow_fen(Self, color)) IN
        /\ Moved
        /\ lastMove.piece.type = KING
        /\ lastMove.piece.color = color
        /\ ~HasRights(color)
        /\ HasRights(Other(color))
        /\ halfmove_clock > 0
        /\ fields[3] = <<"-">>
        /\ fields[5] = <<"0">>
        /\ Fields(to_fow_fen(Self, Other(color)))[3] # <<"-">>

(* ---- Board(fen): FenParser(fen).parse() and Board.__init__ ---- *)
Lower(ch) ==
    CASE ch \in {"P", "p"} -> PAWN [] ch \in {"N", "n"} -> KNIGHT
      [] ch \in {"B", "b"} -> BISHOP [] ch \in {"R", "r"} -> ROOK
      [] ch \in {"Q", "q"} -> QUEEN [] ch \in {"K", "k"} -> KING

IsUpper(ch) == ch \in {"P", "N", "B", "R", "Q", "K"}

(* Piece(piece, pos): the letter gives the type, its case the color *)
PieceFromLetter(ch, pos) == Piece(Lower(ch), IF IsUpper(ch) THEN WHITE ELSE BLACK, pos)

(* Position.from_san *)
FromSan(str) ==
    Pos(DigitValue(str[2]), CHOOSE f \in 1..8 : FileLetter(f) = str[1])

(* FenParser(fen).parse(): the grid of piece codes, rank 8 first, blanks   *)
(* for empty squares, and the five trailing fields as strings              *)
ParseFen(str) ==
    LET fields == Fields(str)
        cells == Cells(fields[1], 1)
    IN [grid |-> [i \in 1..8 |-> [j \in 1..8 |-> cells[(i - 1) * 8 + j]]],
        side_to_move |-> fields[2], castling |-> fields[3],
        en_passant |-> fields[4], halfmove_clock |-> fields[5],
        fullmove_number |-> fields[6]]

(* Board.__init__ reading the grid upside down *)
FromFenFlipped(str) ==
    LET parsed == ParseFen(str)
        occupied == {pos \in Squares : parsed.grid[pos.rank][pos.file] # " "}
    IN BoardOf([pos \in occupied |->
                    PieceFromLetter(parsed.grid[pos.rank][pos.file], pos)],
               (WHITE :> <<"K" \in Range(parsed.castling), "Q" \in Range(parsed.castling)>>)
               @@ (BLACK :> <<"k" \in Range(parsed.castling), "q" \in Range(parsed.castling)>>),
               IF parsed.side_to_move = <<"w">> THEN WHITE ELSE BLACK,
               IF parsed.en_passant = <<"-">> THEN None ELSE FromSan(parsed.en_passant),
               ToInt(parsed.halfmove_clock), ToInt(parsed.fullmove_number))

(* Board.__init__, lines 151-178: the state of Board(fen) *)
FromFen(str) ==
    LET parsed == ParseFen(str)
        occupied == {pos \in Squares : parsed.grid[9 - pos.rank][pos.file] # " "}
    IN BoardOf([pos \in occupied |->
                    PieceFromLetter(parsed.grid[9 - pos.rank][pos.file], pos)],
               (WHITE :> <<"K" \in Range(parsed.castling), "Q" \in Range(parsed.castling)>>)
               @@ (BLACK :> <<"k" \in Range(parsed.castling), "q" \in Range(parsed.castling)>>),
               IF parsed.side_to_move = <<"w">> THEN WHITE ELSE BLACK,
               IF parsed.en_passant = <<"-">> THEN None ELSE FromSan(parsed.en_passant),
               ToInt(parsed.halfmove_clock), ToInt(parsed.fullmove_number))

(* C13: constructing a new Board from to_fen(B) and serialising it with    *)
(* to_fen yields the identical string, and the new board has the same      *)
(* piece placement, side to move, castling rights, en-passant target,      *)
(* halfmove clock and fullmove number as B.                                *)
C13_FenRoundTrip ==
    LET text == to_fen(Self)
        again == FromFen(text)
    IN /\ to_fen(again) = text
       /\ again.pieces = pieces
       /\ again.side_to_move = side_to_move
       /\ again.castling = castling
       /\ again.en_passant = en_passant
       /\ again.halfmove_clock = halfmove_clock
       /\ again.fullmove_number = fullmove_number

(* a board with an en-passant target, a two-digit fullmove number and      *)
(* rights left to one color only comes back unchanged                      *)
C13_Witness ==
    /\ Moved
    /\ en_passant # None
    /\ fullmove_number >= 10
    /\ \E color \in Colors : HasRights(color) /\ ~HasRights(Other(color))
    /\ FromFen(to_fen(Self)) = Self

(* ---- the default starting board ---- *)
(* the number of moves in a result of get_legal_moves *)
RECURSIVE MoveCount(_, _)
MoveCount(legal_moves, keys) ==
    IF keys = {} THEN 0
    ELSE LET k == CHOOSE x \in keys : TRUE
         IN Len(legal_moves[k]) + MoveCount(legal_moves, keys \ {k})

AtStart ==
    /\ pieces = StartBoard.pieces
    /\ castling = StartBoard.castling
    /\ en_passant = StartBoard.en_passant

(* C14: on the default starting board get_legal_moves of either color      *)
(* holds exactly 20 moves: two for each of the 8 pawns and two for each    *)
(* of the 2 knights; the other pieces have none and are not in the         *)
(* result; no move is a capture, a promotion or a castling move.           *)
C14_TwentyMovesAtStart ==
    AtStart =>
        \A color \in Colors :
            LET legal_moves == get_legal_moves(Self, color)
                movers == {pos \in Occupied(color) : pieces[pos].type \in {PAWN, KNIGHT}}
            IN /\ MoveCount(legal_moves, DOMAIN legal_moves) = 20
               /\ Cardinality(MoveSet(legal_moves)) = 20
               /\ DOMAIN legal_moves = movers
               /\ Cardinality({pos \in movers : pieces[pos].type = PAWN}) = 8
               /\ Cardinality({pos \in movers : pieces[pos].type = KNIGHT}) = 2
               /\ \A pos \in movers :
                      /\ Len(legal_moves[pos]) = 2
                      /\ \A i \in 1..2 : legal_moves[pos][i].piece = pieces[pos]
               /\ \A move \in MoveSet(legal_moves) :
                      /\ move.capture_target = None
                      /\ move.promotion_piece = NoType
                      /\ move.castling_rook = None
                      /\ move.to_position \notin DOMAIN pieces

(* the default board as constructed, 20 moves for WHITE and 20 for BLACK *)
C14_Witness ==
    /\ ply = 0
    /\ Self = StartBoard
    /\ FromFen(fen) = StartBoard
    /\ \A color \in Colors :
           MoveCount(get_legal_moves(Self, color),
                     DOMAIN get_legal_moves(Self, color)) = 20

(* C15: with moves drawn from get_legal_moves(side_to_move), every         *)
(* apply_move is a move of the side to move and hands the move to the      *)
(* other color; fullmove_number grows by exactly 1 on each move made by    *)
(* BLACK and is unchanged on each move made by WHITE; from the default     *)
(* start it is 1 + the number of BLACK moves applied.                      *)
C15_TurnsAndFullmoves ==
    /\ Moved =>
           /\ lastMove.piece.color = prev.side_to_move
           /\ side_to_move # prev.side_to_move
           /\ side_to_move = Other(lastMove.piece.color)
           /\ fullmove_number =
                  IF lastMove.piece.color = BLACK THEN prev.fullmove_number + 1
                  ELSE prev.fullmove_number
    /\ first = StartBoard => fullmove_number = 1 + black_moves
    /\ fullmove_number = first.fullmove_number + black_moves
    /\ black_moves = IF first.side_to_move = WHITE THEN ply \div 2 ELSE (ply + 1) \div 2

(* 25 moves by each side from the default start: fullmove_number is 26 *)
C15_Witness ==
    /\ first = StartBoard
    /\ Moved
    /\ lastMove.piece.color = BLACK
    /\ black_moves = 25
    /\ ply = 50
    /\ side_to_move = WHITE
    /\ fullmove_number = 26

(* C16: after construction and after every apply_move the cached strings   *)
(* agree with the state: fen is to_fen() and fow_fen is                    *)
(* to_fow_fen(side_to_move) of the state as it is now, for the side that   *)
(* is now to move.                                                         *)
C16_CachedStrings ==
    /\ fen = to_fen(Self)
    /\ fow_fen = to_fow_fen(Self, side_to_move)

(* a move has changed both strings, and the fog string is the view of the  *)
(* new side to move, which differs from the mover's view                   *)
C16_Witness ==
    /\ Moved
    /\ fen = to_fen(Self)
    /\ fen # to_fen(prev)
    /\ fow_fen = to_fow_fen(Self, side_to_move)
    /\ fow_fen # to_fow_fen(Self, prev.side_to_move)
    /\ fow_fen # to_fow_fen(prev, prev.side_to_move)

(* ---- the queries ---- *)
QueryOps == {"get_legal_moves", "to_fen", "to_fow_fen", "to_array", "to_fow_array"}

(* C17: get_legal_moves, to_fen, to_fow_fen, to_array and to_fow_array,    *)
(* called for either color in any reachable state, leave the piece map     *)
(* (hence every piece's type, color and position), the castling rights,    *)
(* the side to move, the en-passant target, both counters and both cached  *)
(* strings unchanged, and a query called twice in a row returns the same   *)
(* result both times.                                                      *)
C17_QueriesReadOnly ==
    [][call'.op \in QueryOps =>
           /\ pieces' = pieces
           /\ castling' = castling
           /\ side_to_move' = side_to_move
           /\ en_passant' = en_passant
           /\ halfmove_clock' = halfmove_clock
           /\ fullmove_number' = fullmove_number
           /\ fen' = fen
           /\ fow_fen' = fow_fen
           /\ call'.repeated => call'.value = call.value]_vars

(* to_fow_fen has been called twice in a row for the color that is not to  *)
(* move, after a move: the cached fog string is still the other color's    *)
C17_Witness ==
    /\ Moved
    /\ call.op = "to_fow_fen"
    /\ call.color # side_to_move
    /\ call.repeated
    /\ call.value # fow_fen
    /\ fow_fen = to_fow_fen(Self, side_to_move)

(* C18: the piece map is self-consistent: every entry has the position it  *)
(* is keyed under, every key is a square of the board, no piece is stored  *)
(* under two keys, so at most one piece stands on any square.              *)
C18_PieceMapConsistent ==
    /\ \A pos \in DOMAIN pieces :
           /\ pieces[pos].position = pos
           /\ IsValid(pos)
           /\ pos.rank \in 1..8 /\ pos.file \in 1..8
           /\ pieces[pos].type \in PieceTypes
           /\ pieces[pos].color \in Colors
    /\ \A p \in DOMAIN pieces : \A q \in DOMAIN pieces :
           p # q => pieces[p] # pieces[q]
    /\ Cardinality({pieces[pos] : pos \in DOMAIN pieces}) = Cardinality(DOMAIN pieces)

(* white has castled: king and rook are both keyed under their new squares *)
C18_Witness ==
    /\ Moved
    /\ lastMove.castling_rook # None
    /\ lastMove.piece.color = WHITE
    /\ pieces[lastMove.to_position].position = lastMove.to_position
    /\ pieces[lastMove.to_position].type = KING
    /\ \E pos \in DOMAIN pieces :
           /\ pos # lastMove.castling_rook.position
           /\ pieces[pos] = [lastMove.castling_rook EXCEPT !.position = pos]
    /\ \A pos \in DOMAIN pieces : pieces[pos].position = pos

(* C19: apply_move of a generated move removes exactly the move's captured *)
(* piece, from the square that piece stands on (for an en-passant capture  *)
(* the square beside the mover, not the destination); afterwards the       *)
(* destination holds the mover and the origin is empty; every piece other  *)
(* than the mover, the captured piece and a castling rook is where it was, *)
(* with its type and color; the piece count drops by 1 on a capture and    *)
(* is unchanged otherwise.                                                 *)
Touched ==
    {Origin}
    \cup (IF lastMove.capture_target # None
          THEN {lastMove.capture_target.position} ELSE {})
    \cup (IF lastMove.castling_rook # None
          THEN {lastMove.castling_rook.position} ELSE {})

WasEnPassant ==
    /\ lastMove.piece.type = PAWN
    /\ lastMove.to_position.file # Origin.file
    /\ lastMove.to_position \notin DOMAIN prev.pieces

C19_OnlyCapturedPieceRemoved ==
    Moved =>
        LET to == lastMove.to_position
            target == lastMove.capture_target
        IN /\ target # None =>
                  /\ target.position \in DOMAIN prev.pieces
                  /\ prev.pieces[target.position] = target
                  /\ target.position # to => target.position \notin DOMAIN pieces
           /\ WasEnPassant =>
                  /\ target # None
                  /\ target.position = Pos(Origin.rank, to.file)
                  /\ target.position # to
                  /\ target.position \notin DOMAIN pieces
           /\ (target # None /\ ~WasEnPassant) => target.position = to
           /\ to \in DOMAIN pieces
           /\ pieces[to].color = lastMove.piece.color
           /\ pieces[to].position = to
           /\ pieces[to].type = IF lastMove.promotion_piece # NoType
                                THEN lastMove.promotion_piece ELSE lastMove.piece.type
           /\ Origin \notin DOMAIN pieces
           /\ \A pos \in DOMAIN prev.pieces \ Touched :
                  pos \in DOMAIN pieces /\ pieces[pos] = prev.pieces[pos]
           /\ \A pos \in DOMAIN pieces \ DOMAIN prev.pieces :
                  \/ pos = to
                  \/ /\ lastMove.castling_rook # None
                     /\ pieces[pos] = [lastMove.castling_rook EXCEPT !.position = pos]
           /\ Cardinality(DOMAIN pieces) =
                  Cardinality(DOMAIN prev.pieces) - (IF target # None THEN 1 ELSE 0)

(* an en-passant capture has been applied: the pawn beside the mover is    *)
(* gone, the destination holds the mover, one piece less                   *)
C19_Witness ==
    /\ Moved
    /\ WasEnPassant
    /\ lastMove.capture_target.position # lastMove.to_position
    /\ lastMove.capture_target.position \in DOMAIN prev.pieces
    /\ lastMove.capture_target.position \notin DOMAIN pieces
    /\ pieces[lastMove.to_position] =
           [lastMove.piece EXCEPT !.position = lastMove.to_position]
    /\ Cardinality(DOMAIN pieces) = Cardinality(DOMAIN prev.pieces) - 1

(* ---- sliding pieces ---- *)
Sliders == {pos \in DOMAIN pieces : pieces[pos].type \in {BISHOP, ROOK, QUEEN}}

(* square lies on the ray from pos in direction d *)
OnRay(pos, d, square) ==
    LET dr == Abs(square.rank - pos.rank)
        df == Abs(square.file - pos.file)
        n == IF dr > df THEN dr ELSE df
    IN n >= 1 /\ Step(pos, d, n) = square

(* the squares of the ray from pos in direction d up to the first occupied *)
(* one: the empty ones, and the occupied one if an enemy stands on it      *)
Reach(pos, d) ==
    {Step(pos, d, n) : n \in {j \in 1..7 :
        /\ IsValid(Step(pos, d, j))
        /\ \A k \in 1..(j - 1) : Step(pos, d, k) \notin DOMAIN pieces
        /\ \/ Step(pos, d, j) \notin DOMAIN pieces
           \/ pieces[Step(pos, d, j)].color # pieces[pos].color}}

(* C20: for bishop, rook and queen the destinations generated along each   *)
(* ray direction (4 diagonal, 4 orthogonal, all 8 for the queen) are the   *)
(* consecutive empty squares from the piece outward, plus the first        *)
(* occupied square iff it holds an enemy piece, as a capture of that       *)
(* piece; none lies beyond the first occupied square or off the board,     *)
(* and a square occupied by an own piece is never a destination.           *)
C20_SlidingMoves ==
    \A pos \in Sliders :
        LET piece == pieces[pos]
            moves == PieceMoves(Self, piece)
            dests == {moves[i].to_position : i \in DOMAIN moves}
            dirs == RayDirections(piece.type)
        IN /\ Cardinality(dirs) = IF piece.type = QUEEN THEN 8 ELSE 4
           /\ \A d \in dirs : {sq \in dests : OnRay(pos, d, sq)} = Reach(pos, d)
           /\ \A sq \in dests : \E d \in dirs : OnRay(pos, d, sq)
           /\ Len(moves) = Cardinality(dests)
           /\ \A i \in DOMAIN moves :
                  /\ moves[i].piece = piece
                  /\ IsValid(moves[i].to_position)
                  /\ moves[i].capture_target = Get(pieces, moves[i].to_position)
                  /\ moves[i].capture_target # None =>
                         moves[i].capture_target.color # piece.color
                  /\ moves[i].promotion_piece = NoType
                  /\ moves[i].castling_rook = None
           /\ \A d \in dirs : BeyondBlocker(pos, d) \cap dests = {}

(* a sliding piece has, on one ray, empty squares and then an enemy piece  *)
(* it can capture with board left beyond it, and on another ray an own     *)
(* piece that stops it                                                     *)
C20_Witness ==
    \E pos \in Sliders :
        LET piece == pieces[pos]
            moves == PieceMoves(Self, piece)
            dests == {moves[i].to_position : i \in DOMAIN moves}
        IN /\ Moved
           /\ \E d \in RayDirections(piece.type) : \E n \in 2..6 :
                  /\ Step(pos, d, n) \in DOMAIN pieces
                  /\ pieces[Step(pos, d, n)].color # piece.color
                  /\ \A k \in 1..n : Step(pos, d, k) \in dests
                  /\ IsValid(Step(pos, d, n + 1))
                  /\ Step(pos, d, n + 1) \notin dests
           /\ \E d \in RayDirections(piece.type) : \E n \in 1..7 :
                  /\ Step(pos, d, n) \in DOMAIN pieces
                  /\ pieces[Step(pos, d, n)].color = piece.color
                  /\ \A k \in 1..(n - 1) : Step(pos, d, k) \in dests
                  /\ Step(pos, d, n) \notin dests

(* ---- C21 ---- *)
Forward(color) == IF color = WHITE THEN 1 ELSE -1

StartRank(color) == IF color = WHITE THEN 2 ELSE 7

(* the two squares diagonally in front of the pawn that are on the board *)
DiagonalSquares(pawn) ==
    {d \in {Pos(PieceRank(pawn) + Forward(pawn.color), PieceFile(pawn) + 1),
            Pos(PieceRank(pawn) + Forward(pawn.color), PieceFile(pawn) - 1)} : IsValid(d)}

(* the square is the en-passant target of a two-square advance of the other color *)
IsEnPassantCase(pawn, d) ==
    /\ en_passant # None
    /\ en_passant = d
    /\ en_passant.rank = (IF pawn.color = WHITE THEN 6 ELSE 3)

PawnMovesOK(pawn, moves) ==
    LET r == PieceRank(pawn)
        f == PieceFile(pawn)
        dir == Forward(pawn.color)
        dests == {moves[i].to_position : i \in DOMAIN moves}
    IN /\ \A i \in DOMAIN moves :
            LET m == moves[i] IN
            \/ /\ m.to_position.file = f
               /\ m.to_position \notin DOMAIN pieces
               /\ m.capture_target = None
               /\ \/ m.to_position.rank = r + dir
                  \/ /\ m.to_position.rank = r + 2 * dir
                     /\ r = StartRank(pawn.color)
                     /\ Pos(r + dir, f) \notin DOMAIN pieces
            \/ m.to_position \in DiagonalSquares(pawn)
       /\ \A d \in DiagonalSquares(pawn) :
            d \in dests <=> \/ (d \in DOMAIN pieces /\ pieces[d].color # pawn.color)
                            \/ IsEnPassantCase(pawn, d)

(* C21: for every pawn, a forward move goes only onto an empty square and   *)
(* never captures, the two-square advance is generated only from the        *)
(* color's starting rank over an empty intermediate square onto an empty    *)
(* square, and a diagonal-forward square is a destination if and only if it *)
(* holds an enemy piece or is the en-passant case.                          *)
C21_PawnMoves ==
    \A pos \in Pawns : PawnMovesOK(pieces[pos], get_pawn_moves(Self, pieces[pos]))

(* after a move, one pawn has the two-square advance, one captures          *)
(* diagonally, one has an empty diagonal square, and one on its starting    *)
(* rank is blocked on the square in front of it or the one after            *)
C21_Witness ==
    /\ Moved
    /\ \E pos \in Pawns :
          LET moves == get_pawn_moves(Self, pieces[pos]) IN
          \E i \in DOMAIN moves :
              Abs(moves[i].to_position.rank - pos.rank) = 2
    /\ \E pos \in Pawns :
          LET moves == get_pawn_moves(Self, pieces[pos]) IN
          \E i \in DOMAIN moves :
              /\ moves[i].to_position.file # pos.file
              /\ moves[i].capture_target # None
    /\ \E pos \in Pawns :
          \E d \in DiagonalSquares(pieces[pos]) :
              d \notin DOMAIN pieces /\ ~IsEnPassantCase(pieces[pos], d)
    /\ \E pos \in Pawns :
          /\ pos.rank = StartRank(pieces[pos].color)
          /\ \E n \in 1..2 :
                Pos(pos.rank + n * Forward(pieces[pos].color), pos.file) \in DOMAIN pieces

(* ---- C22 ---- *)
FinalRank(color) == IF color = WHITE THEN 8 ELSE 1

IsPromoting(move) ==
    move.piece.type = PAWN /\ move.to_position.rank = FinalRank(move.piece.color)

(* the indexes of the moves of the list that go where moves[i] goes *)
SameDestination(moves, i) ==
    {j \in DOMAIN moves : moves[j].to_position = moves[i].to_position}

PromotionsOK(moves) ==
    \A i \in DOMAIN moves :
        IF IsPromoting(moves[i])
        THEN /\ Cardinality(SameDestination(moves, i)) = 4
             /\ \A t \in {QUEEN, ROOK, BISHOP, KNIGHT} :
                   \E j \in SameDestination(moves, i) :
                       /\ moves[j].promotion_piece = t
                       /\ moves[j].capture_target = moves[i].capture_target
        ELSE moves[i].promotion_piece = NoType

(* C22: every generated pawn move onto the color's final rank comes in      *)
(* exactly four variants, promoting to QUEEN, ROOK, BISHOP and KNIGHT, no   *)
(* other move carries a promotion type, apply_move gives the moved piece    *)
(* the promotion type, and no pawn stands on rank 1 or rank 8.              *)
C22_Promotion ==
    /\ \A color \in Colors :
          LET legal_moves == get_legal_moves(Self, color) IN
          \A pos \in DOMAIN legal_moves : PromotionsOK(legal_moves[pos])
    /\ Moved =>
          /\ lastMove.to_position \in DOMAIN pieces
          /\ pieces[lastMove.to_position].color = lastMove.piece.color
          /\ pieces[lastMove.to_position].type =
                 (IF lastMove.promotion_piece # NoType
                  THEN lastMove.promotion_piece ELSE lastMove.piece.type)
    /\ \A pos \in Pawns : pos.rank \notin {1, 8}

(* a pawn has just captured onto its final rank and become a knight, and    *)
(* a pawn of the other color can now promote with and without a capture     *)
C22_Witness ==
    /\ Moved
    /\ IsPromoting(lastMove)
    /\ lastMove.capture_target # None
    /\ lastMove.promotion_piece = KNIGHT
    /\ \E pos \in Pawns :
          LET moves == get_pawn_moves(Self, pieces[pos]) IN
          /\ \E i \in DOMAIN moves : IsPromoting(moves[i]) /\ moves[i].capture_target # None
          /\ \E i \in DOMAIN moves : IsPromoting(moves[i]) /\ moves[i].capture_target = None

(* ---- C23 ---- *)
Corners(color) == {Pos(HomeRank(color), 1), Pos(HomeRank(color), 8)}

LeavesCorner(move) ==
    move.piece.type = ROOK /\ move.piece.position \in Corners(move.piece.color)

(* C23: apply_move leaves the castling rights of both colors unchanged for  *)
(* every move whose moving piece is neither a king nor a rook that leaves   *)
(* one of its own color's original corner squares.                          *)
C23_RightsUnchangedOtherwise ==
    (Moved /\ lastMove.piece.type # KING /\ ~LeavesCorner(lastMove))
        => castling = prev.castling

(* ---- C24 ---- *)
KingHome(color) == Pos(HomeRank(color), 5)

KingsOf(color) == {pos \in Kings : pieces[pos].color = color}

(* the castling moves generated for the color in the current state *)
GeneratedCastlings(color) ==
    {m \in MoveSet(get_legal_moves(Self, color)) : m.castling_rook # None}

(* C24: while a castling right of a color is set and the color's king is on *)
(* the board, the king stands on its home square (e1, e8), and every        *)
(* generated castling move takes the king to c1, g1, c8 or g8.              *)
C24_KingHomeWhileRights ==
    \A color \in Colors :
        /\ HasRights(color) => KingsOf(color) \subseteq {KingHome(color)}
        /\ \A m \in GeneratedCastlings(color) :
              /\ m.piece.type = KING
              /\ m.piece.position = KingHome(color)
              /\ m.to_position \in {Pos(HomeRank(color), 3), Pos(HomeRank(color), 7)}

(* the king of one color has left its home square, which cleared the        *)
(* color's rights, while a castling move is generated for the other color   *)
C24_Witness ==
    /\ Moved
    /\ lastMove.piece.type = KING
    /\ lastMove.castling_rook = None
    /\ prev.castling[lastMove.piece.color] # <<FALSE, FALSE>>
    /\ ~HasRights(lastMove.piece.color)
    /\ KingsOf(lastMove.piece.color) # {}
    /\ KingHome(lastMove.piece.color) \notin KingsOf(lastMove.piece.color)
    /\ GeneratedCastlings(Other(lastMove.piece.color)) # {}

(* ---- C25 ---- *)
ColorOfValue(v) == IF v = 0 THEN WHITE ELSE BLACK

TypeOfOrdinal(n) == CHOOSE t \in PieceTypes : TypeOrdinal(t) = n

MaxOf(S) == CHOOSE x \in S : \A y \in S : y <= x

MinOf(S) == CHOOSE x \in S : \A y \in S : x <= y

(* the loops of lines 202-212 assign board.pieces[pos] once per channel    *)
(* that is set at the cell, WHITE before BLACK and the types in the order   *)
(* of their ordinals, so the piece of the highest such channel stays        *)
PieceFromPlanes(arr, cell) ==
    LET ch == MaxOf({c \in 7..18 : cell \in arr[c]})
    IN Piece(TypeOfOrdinal((ch - 7) % 6), ColorOfValue((ch - 7) \div 6), SquareOf(cell))

(* np.argmax over a row of a channel: the first file that is set *)
FirstFile(arr, ch, row) == MinOf({f \in 0..7 : <<row, f>> \in arr[ch]})

(* lines 214-231 *)
EnPassantFromPlanes(arr) ==
    IF \E f \in 0..7 : <<0, f>> \in arr[PieceChannel(WHITE, PAWN)]
    THEN Pos(3, FirstFile(arr, PieceChannel(WHITE, PAWN), 0) + 1)
    ELSE IF \E f \in 0..7 : <<7, f>> \in arr[PieceChannel(BLACK, PAWN)]
    THEN Pos(6, FirstFile(arr, PieceChannel(BLACK, PAWN), 7) + 1)
    ELSE None

(* lines 233-239: np.argwhere lists the cells in row-major order *)
ClockFromPlanes(arr) ==
    IF arr[5] # {}
    THEN MinOf({cell[1] * 8 + cell[2] : cell \in arr[5]})
    ELSE 0

(* Board.from_array(arr, fullmove_number), lines 184-247 *)
from_array(arr, fmn) ==
    LET occupied == {cell \in AllCells : \E c \in 7..18 : cell \in arr[c]}
    IN BoardOf([pos \in {SquareOf(cell) : cell \in occupied} |->
                   PieceFromPlanes(arr, CellOf(pos))],
               Rights(arr[0] # {}, arr[1] # {}, arr[2] # {}, arr[3] # {}),
               IF arr[4] # {} THEN WHITE ELSE BLACK,
               EnPassantFromPlanes(arr),
               ClockFromPlanes(arr),
               fmn)

(* C25: for every reached board B with halfmove_clock below 64,             *)
(* from_array(to_array(B), B.fullmove_number) reconstructs B: the same      *)
(* pieces on the same squares and no others, the same castling rights,      *)
(* side to move, en-passant target and halfmove clock, so the same to_fen,  *)
(* also when B has an en-passant target.                                    *)
C25_ArrayRoundTrip ==
    halfmove_clock < 64 =>
        LET back == from_array(to_array(Self), fullmove_number)
        IN /\ back = Self
           /\ to_fen(back) = fen

(* the same round trip on the boards without an en-passant target *)
C25_ArrayRoundTripNoTarget ==
    (halfmove_clock < 64 /\ en_passant = None) =>
        LET back == from_array(to_array(Self), fullmove_number)
        IN /\ back = Self
           /\ to_fen(back) = fen

(* ---- C26 ---- *)
(* the squares of the other color's pieces that the color does not see *)
Hidden(color, sight) == {pos \in DOMAIN pieces : pieces[pos].color # color /\ pos \notin sight}

(* the current board with the pieces on the squares of S given the type t, *)
(* and with the halfmove clock hmc                                          *)
Retyped(S, t, hmc) ==
    BoardOf([pos \in DOMAIN pieces |->
                IF pos \in S THEN [pieces[pos] EXCEPT !.type = t] ELSE pieces[pos]],
            castling, side_to_move, en_passant, hmc, fullmove_number)

(* the boards that differ from the current one only in the type of one     *)
(* hidden piece, or of all of them, and in the halfmove clock               *)
HiddenVariants(color, sight) ==
    {Retyped(S, t, halfmove_clock + 1) :
        S \in {{pos} : pos \in Hidden(color, sight)} \cup {Hidden(color, sight)},
        t \in PieceTypes}
    \cup {Retyped({}, PAWN, 0)}

SameFogOutput(color, sight) ==
    LET text == to_fow_fen(Self, color)
        array == to_fow_array(Self, color)
    IN \A other \in HiddenVariants(color, sight) :
          /\ to_fow_fen(other, color) = text
          /\ to_fow_array(other, color) = array

(* C26: two boards that agree on the side to move, the castling rights,     *)
(* the en-passant target, the fullmove number, the occupied squares and     *)
(* the pieces on the observing color's sight set, and differ only in the    *)
(* types of enemy pieces outside the sight set and in halfmove_clock, have  *)
(* the same to_fow_fen(color) and the same to_fow_array(color).             *)
C26_FogIndependentOfHidden ==
    \A color \in Colors : SameFogOutput(color, Sight(Self, color))

(* after a move a color does not see an enemy piece that is not a pawn,    *)
(* while the clock is not 0, so that the compared boards differ in both     *)
C26_Witness ==
    /\ Moved
    /\ halfmove_clock > 0
    /\ \E color \in Colors :
          \E pos \in Hidden(color, Sight(Self, color)) :
              /\ pieces[pos].type # PAWN
              /\ Retyped({pos}, PAWN, halfmove_clock + 1)
                     \in HiddenVariants(color, Sight(Self, color))
              /\ Retyped({pos}, PAWN, halfmove_clock + 1).pieces # pieces

====
